---------------------------- MODULE Spec2Model ----------------------------
(***************************************************************************)
(* A model of the in-memory portfolio store (server/storage.ts) and of the *)
(* REST handlers that drive it (server/routes.ts).                         *)
(*                                                                         *)
(* Numbers.  The store keeps every decimal as a string and computes with   *)
(* parseFloat / Number.prototype.toString, i.e. with IEEE 754 doubles,     *)
(* which the model computes with their 53-bit rounding.  A decimal string  *)
(* is its sign, its digits and the number of digits after the point, so    *)
(* that "150.00" and "150" are different strings that parse to the same    *)
(* number.                                                                 *)
(*                                                                         *)
(* Scheduling.  Node runs one handler at a time and switches only at an    *)
(* await.  Every request is a process whose position is the await it is    *)
(* suspended at; one action is the synchronous run between two awaits.     *)
(***************************************************************************)
EXTENDS Integers, Sequences, FiniteSets, TLC

VARIABLES
    portfolios,     \* MemStorage.portfolios: the set of portfolio ids
    holdings,       \* MemStorage.holdings: records in Map insertion order
    transactions,   \* MemStorage.transactions: records in Map insertion order
    marketData,     \* MemStorage.marketData: records in Map insertion order
    currencies,     \* MemStorage.currencies: records in Map insertion order
    session,        \* whether the caller's session holds a logged-in user
    users,          \* MemStorage.users: records in Map insertion order
    googleIdToUserId, \* MemStorage.googleIdToUserId: user id by Google id
    nextId,         \* the next value randomUUID() hands out
    now,            \* the wall clock read by new Date(), in seconds
    req,            \* the HTTP requests in flight: req[r] is request slot r
    sent,           \* the last response sent
    used            \* how much of each bound the run has used

vars ==
    <<portfolios, holdings, transactions, marketData, currencies, session,
      users, googleIdToUserId, nextId, now, req, sent, used>>

-----------------------------------------------------------------------------
(* Bounds of the model.                                                    *)

MaxReq == 2         \* request slots, i.e. requests in flight at once
MaxOps == 2         \* accepted POSTs of a transaction or a holding
MaxBuys == 3        \* accepted buys in the specification of buys alone
MaxPriceRuns == 1   \* POST /update-prices requests
MaxQuotes == 2      \* GET requests for a quote or a currency rate
MaxClock == 1       \* clock ticks
MaxReads == 1       \* metrics reads
MaxWrites == 1      \* accepted transactions in the specification of the reads
MaxSignIns == 3     \* Google sign-in callbacks
MaxPosts == 4       \* accepted transactions before the reads of the ledger

-----------------------------------------------------------------------------
(* Natural numbers of any size, as sequences of limbs in base 2^15, least  *)
(* significant first and with no leading zero limb: TLC's integers have    *)
(* 32 bits, a double's significand has 53.                                 *)

Base == 32768
LimbBits == 15

RECURSIVE Pow2(_)
Pow2(k) == IF k = 0 THEN 1 ELSE 2 * Pow2(k - 1)

RECURSIVE BTrim(_)
BTrim(a) ==
    IF a = <<>> THEN a
    ELSE IF a[Len(a)] = 0 THEN BTrim(SubSeq(a, 1, Len(a) - 1)) ELSE a

RECURSIVE BOf(_)
BOf(n) == IF n = 0 THEN <<>> ELSE <<n % Base>> \o BOf(n \div Base)

Limb(a, i) == IF i \in DOMAIN a THEN a[i] ELSE 0

RECURSIVE BAddFrom(_, _, _, _)
BAddFrom(a, b, i, carry) ==
    IF i > Len(a) /\ i > Len(b)
    THEN IF carry = 0 THEN <<>> ELSE <<carry>>
    ELSE LET t == Limb(a, i) + Limb(b, i) + carry
         IN  <<t % Base>> \o BAddFrom(a, b, i + 1, t \div Base)

BAdd(a, b) == BAddFrom(a, b, 1, 0)

\* a - b for a >= b
RECURSIVE BSubFrom(_, _, _, _)
BSubFrom(a, b, i, borrow) ==
    IF i > Len(a) THEN <<>>
    ELSE LET t == a[i] - Limb(b, i) - borrow
         IN  IF t < 0 THEN <<t + Base>> \o BSubFrom(a, b, i + 1, 1)
             ELSE <<t>> \o BSubFrom(a, b, i + 1, 0)

BSub(a, b) == BTrim(BSubFrom(a, b, 1, 0))

\* -1, 0 or 1 as a < b, a = b or a > b
RECURSIVE BCmpFrom(_, _, _)
BCmpFrom(a, b, i) ==
    IF i = 0 THEN 0
    ELSE IF a[i] < b[i] THEN -1
    ELSE IF a[i] > b[i] THEN 1
    ELSE BCmpFrom(a, b, i - 1)

BCmp(a, b) ==
    IF Len(a) < Len(b) THEN -1
    ELSE IF Len(a) > Len(b) THEN 1
    ELSE BCmpFrom(a, b, Len(a))

\* a * k for a limb k
RECURSIVE BMulLimbFrom(_, _, _, _)
BMulLimbFrom(a, k, i, carry) ==
    IF i > Len(a)
    THEN IF carry = 0 THEN <<>> ELSE <<carry>>
    ELSE LET t == a[i] * k + carry
         IN  <<t % Base>> \o BMulLimbFrom(a, k, i + 1, t \div Base)

BMulLimb(a, k) == IF k = 0 THEN <<>> ELSE BMulLimbFrom(a, k, 1, 0)

\* a * Base^n
BShiftLimbs(a, n) == IF a = <<>> THEN a ELSE [i \in 1..n |-> 0] \o a

RECURSIVE BMulFrom(_, _, _)
BMulFrom(a, b, i) ==
    IF i > Len(b) THEN <<>>
    ELSE BAdd(BShiftLimbs(BMulLimb(a, b[i]), i - 1), BMulFrom(a, b, i + 1))

BMul(a, b) == BMulFrom(a, b, 1)

\* a * 2^k
BShl(a, k) == BShiftLimbs(BMulLimb(a, Pow2(k % LimbBits)), k \div LimbBits)

\* <<quotient, remainder>> of a by a limb k > 0
RECURSIVE BDivLimbFrom(_, _, _, _)
BDivLimbFrom(a, k, i, rem) ==
    IF i = 0 THEN <<<<>>, rem>>
    ELSE LET t == rem * Base + a[i]
             rest == BDivLimbFrom(a, k, i - 1, t % k)
         IN  <<Append(rest[1], t \div k), rest[2]>>

BDivLimb(a, k) ==
    LET r == BDivLimbFrom(a, k, Len(a), 0) IN <<BTrim(r[1]), BOf(r[2])>>

\* floor(a / 2^k)
BShr(a, k) ==
    LET n == k \div LimbBits
    IN  IF n >= Len(a) THEN <<>>
        ELSE BDivLimb(SubSeq(a, n + 1, Len(a)), Pow2(k % LimbBits))[1]

RECURSIVE LimbLen(_)
LimbLen(n) == IF n = 0 THEN 0 ELSE 1 + LimbLen(n \div 2)

\* the number of bits of a
BBits(a) ==
    IF a = <<>> THEN 0 ELSE LimbBits * (Len(a) - 1) + LimbLen(a[Len(a)])

BOdd(a) == a # <<>> /\ a[1] % 2 = 1

\* the largest d in lo..hi with b * d <= r, given b * lo <= r
RECURSIVE BDigit(_, _, _, _)
BDigit(r, b, lo, hi) ==
    IF lo = hi THEN lo
    ELSE LET mid == (lo + hi + 1) \div 2
         IN  IF BCmp(BMulLimb(b, mid), r) <= 0 THEN BDigit(r, b, mid, hi)
             ELSE BDigit(r, b, lo, mid - 1)

\* <<quotient, remainder>> of a by any b > 0, limb by limb from the top
RECURSIVE BDivLongFrom(_, _, _, _)
BDivLongFrom(a, b, i, rem) ==
    IF i = 0 THEN <<<<>>, rem>>
    ELSE LET r == BTrim(<<a[i]>> \o rem)
             d == BDigit(r, b, 0, Base - 1)
             rest == BDivLongFrom(a, b, i - 1, BSub(r, BMulLimb(b, d)))
         IN  <<Append(rest[1], d), rest[2]>>

BDivMod(a, b) ==
    IF Len(b) = 1 THEN BDivLimb(a, b[1])
    ELSE LET r == BDivLongFrom(a, b, Len(a), <<>>) IN <<BTrim(r[1]), r[2]>>

-----------------------------------------------------------------------------
(* JavaScript numbers: IEEE 754 doubles.  A finite double is s * m * 2^e   *)
(* with m odd (m = 0, e = 0, s = 1 for zero), which names every double     *)
(* once.  The model has no negative zero, no subnormals and no overflow:   *)
(* the values it computes with stay far inside the normal range.           *)

Precision == 53

NaN == [k |-> "nan", s |-> 1, m |-> <<>>, e |-> 0]
Inf(s) == [k |-> "inf", s |-> s, m |-> <<>>, e |-> 0]
Zero == [k |-> "fin", s |-> 1, m |-> <<>>, e |-> 0]

\* s * m * 2^e for any m, exactly: trailing zero bits go to the exponent
RECURSIVE Dyadic(_, _, _)
Dyadic(s, m, e) ==
    IF m = <<>> THEN Zero
    ELSE IF m[1] = 0 THEN Dyadic(s, SubSeq(m, 2, Len(m)), e + LimbBits)
    ELSE IF m[1] % 2 = 0 THEN Dyadic(s, BShr(m, 1), e + 1)
    ELSE [k |-> "fin", s |-> s, m |-> m, e |-> e]

\* The double nearest to s * (m + f) * 2^e, ties to the even significand,
\* where 0 <= f < 1 and `more` says whether f > 0.
Round(s, m, e, more) ==
    LET bits == BBits(m)
        drop == bits - Precision
        q == BShr(m, drop)
        rest == BSub(m, BShl(q, drop))
        half == BCmp(rest, BShl(<<1>>, drop - 1))
        up == half > 0 \/ (half = 0 /\ (more \/ BOdd(q)))
    IN  IF drop <= 0 THEN Dyadic(s, m, e)
        ELSE Dyadic(s, IF up THEN BAdd(q, <<1>>) ELSE q, e + drop)

\* the integer i
Num(i) == IF i < 0 THEN Dyadic(-1, BOf(-i), 0) ELSE Dyadic(1, BOf(i), 0)

IsZero(x) == x.k = "fin" /\ x.m = <<>>
Sign(x) == IF x.k = "nan" \/ IsZero(x) THEN 0 ELSE x.s

Neg(x) == IF x.k = "nan" \/ IsZero(x) THEN x ELSE [x EXCEPT !.s = -x.s]

\* a + b of finite a and b, exactly
ExactAdd(a, b) ==
    LET e == IF a.e < b.e THEN a.e ELSE b.e
        ma == BShl(a.m, a.e - e)
        mb == BShl(b.m, b.e - e)
        c == BCmp(ma, mb)
    IN  IF a.s = b.s THEN Dyadic(a.s, BAdd(ma, mb), e)
        ELSE IF c = 0 THEN Zero
        ELSE IF c > 0 THEN Dyadic(a.s, BSub(ma, mb), e)
        ELSE Dyadic(b.s, BSub(mb, ma), e)

\* a * b of finite a and b, exactly
ExactMul(a, b) == Dyadic(a.s * b.s, BMul(a.m, b.m), a.e + b.e)

\* an exact value rounded to a double
Rounded(x) == Round(x.s, x.m, x.e, FALSE)

\* a + b
Add(a, b) ==
    CASE a.k = "nan" \/ b.k = "nan" -> NaN
      [] a.k = "inf" /\ b.k = "inf" -> IF a.s = b.s THEN a ELSE NaN
      [] a.k = "inf" -> a
      [] b.k = "inf" -> b
      [] OTHER -> Rounded(ExactAdd(a, b))

\* a - b
Sub(a, b) == Add(a, Neg(b))

\* a * b
Mul(a, b) ==
    CASE a.k = "nan" \/ b.k = "nan" -> NaN
      [] a.k = "inf" \/ b.k = "inf" ->
            IF Sign(a) * Sign(b) = 0 THEN NaN ELSE Inf(Sign(a) * Sign(b))
      [] OTHER -> Rounded(ExactMul(a, b))

\* a / b of finite a and b # 0: the quotient is taken to 55 bits or more,
\* the remainder says whether anything is left beyond them
Quotient(a, b) ==
    LET need == Precision + 2 + BBits(b.m) - BBits(a.m)
        k == IF need > 0 THEN need ELSE 0
        qr == BDivMod(BShl(a.m, k), b.m)
    IN  Round(a.s * b.s, qr[1], a.e - b.e - k, qr[2] # <<>>)

\* a / b: a zero divisor gives NaN or an infinity, never an exception
Div(a, b) ==
    CASE a.k = "nan" \/ b.k = "nan" -> NaN
      [] a.k = "inf" /\ b.k = "inf" -> NaN
      [] a.k = "inf" -> IF Sign(b) < 0 THEN Inf(-a.s) ELSE a
      [] b.k = "inf" -> Zero
      [] IsZero(b) -> IF IsZero(a) THEN NaN ELSE Inf(a.s)
      [] IsZero(a) -> Zero
      [] OTHER -> Quotient(a, b)

\* a > 0 and a <= 0: both are false of NaN
GtZero(a) == Sign(a) > 0
LeqZero(a) == a.k # "nan" /\ Sign(a) <= 0

-----------------------------------------------------------------------------
(* JavaScript strings holding decimals.  A decimal string is its sign, its *)
(* digits and the number of digits after the point, so "150.00" and "150"  *)
(* are different strings of the same value; any other string is its text.  *)
(* Number.prototype.toString writes the shortest decimal that parseFloat   *)
(* reads back as the same double; it writes doubles below 10^-6 or from    *)
(* 10^21 with an exponent, which the model writes out in full.             *)

Decimal(n, d, p) == [t |-> "dec", x |-> "", n |-> n, d |-> d, p |-> p]
Text(x) == [t |-> "text", x |-> x, n |-> 1, d |-> <<>>, p |-> 0]
Null == [t |-> "null", x |-> "", n |-> 1, d |-> <<>>, p |-> 0]
Undefined == [t |-> "undef", x |-> "", n |-> 1, d |-> <<>>, p |-> 0]

IsString(x) == x.t \in {"dec", "text"}

\* The literal of an integer with p more digits after the point: Places(15000,
\* 2) is "150.00", Dec(50) is "50".
Places(i, p) == IF i < 0 THEN Decimal(-1, BOf(-i), p) ELSE Decimal(1, BOf(i), p)
Dec(i) == Places(i, 0)

BSquare(a) == BMul(a, a)

\* 10^p, by squaring
RECURSIVE Pow10(_)
Pow10(p) ==
    IF p = 0 THEN <<1>>
    ELSE IF p % 2 = 0 THEN BSquare(Pow10(p \div 2))
    ELSE BMulLimb(Pow10(p - 1), 10)

\* parseFloat: the double nearest to the decimal; NaN for text that does not
\* start with a number, for null and for undefined
parseFloat(str) ==
    CASE str.t = "dec" /\ str.d = <<>> -> Zero
      [] str.t = "dec" /\ str.d # <<>> /\ str.p = 0 ->
            Rounded(Dyadic(str.n, str.d, 0))
      [] str.t = "dec" /\ str.d # <<>> /\ str.p > 0 ->
            Quotient(Dyadic(str.n, str.d, 0), Dyadic(1, Pow10(str.p), 0))
      [] str.t = "text" /\ str.x = "Infinity" -> Inf(1)
      [] str.t = "text" /\ str.x = "-Infinity" -> Inf(-1)
      [] OTHER -> NaN

\* Whether parseFloat reads d / 10^p, for digits d, as the double of odd
\* significand m and exponent e < 0.  In units of a quarter of the double's
\* last place the double is 4 * M for its 53-bit significand M, and what
\* rounds to it lies between 4 * M - 2 (4 * M - 1 for a power of two, whose
\* lower neighbour is nearer) and 4 * M + 2, the ends included when M is even.
ReadsBack(d, p, m, e) ==
    LET up == Precision - BBits(m)
        unit == (0 - e) + up + 2
        mid == BShl(m, up + 2)
        low == BSub(mid, IF m = <<1>> THEN <<1>> ELSE <<2>>)
        high == BAdd(mid, <<2>>)
        val == BShl(d, unit)
        below == BCmp(BMul(low, Pow10(p)), val)
        above == BCmp(val, BMul(high, Pow10(p)))
    IN  IF up > 0 THEN below <= 0 /\ above <= 0 ELSE below < 0 /\ above < 0

\* The digits of the shortest decimal with p or more digits after the point
\* that reads back as m * 2^e, e < 0: of the two decimals with p digits around
\* it, the nearer one that reads back, if any
RECURSIVE Shortest(_, _, _)
Shortest(m, e, p) ==
    LET scaled == BMul(m, Pow10(p))
        floor == BShr(scaled, 0 - e)
        ceil == BAdd(floor, <<1>>)
        rest == BSub(scaled, BShl(floor, 0 - e))
        side == BCmp(rest, BShl(<<1>>, (0 - e) - 1))
        near == IF side > 0 \/ (side = 0 /\ BOdd(floor)) THEN ceil ELSE floor
        far == IF near = floor THEN ceil ELSE floor
    IN  IF ReadsBack(near, p, m, e) THEN <<near, p>>
        ELSE IF ReadsBack(far, p, m, e) THEN <<far, p>>
        ELSE Shortest(m, e, p + 1)

Written(n, dp) == Decimal(n, dp[1], dp[2])

\* Number.prototype.toString
toString(x) ==
    CASE x.k = "nan" -> Text("NaN")
      [] x.k = "inf" -> IF x.s > 0 THEN Text("Infinity") ELSE Text("-Infinity")
      [] x.k = "fin" /\ x.e >= 0 -> Decimal(x.s, BShl(x.m, x.e), 0)
      [] OTHER -> Written(x.s, Shortest(x.m, x.e, 1))

\* A value the || operator skips: null, undefined and the empty string.
Falsy(str) == str.t \in {"null", "undef"} \/ (str.t = "text" /\ str.x = "")

\* a || b
OrElse(a, b) == IF Falsy(a) THEN b ELSE a

-----------------------------------------------------------------------------
(* MemStorage: the maps, as sequences of records in insertion order.       *)

\* Map.delete(id)
Without(seq, id) == SelectSeq(seq, LAMBDA e : e.id # id)

\* Map.has(id)
Has(seq, id) == \E i \in DOMAIN seq : seq[i].id = id

\* {...a, ...b}: the fields of b override those of a
Spread(a, b) ==
    [f \in DOMAIN a \cup DOMAIN b |-> IF f \in DOMAIN b THEN b[f] ELSE a[f]]

\* const { id, currentPrice, lastUpdated, ...holdingUpdate } = holding
holdingUpdate(holding) ==
    [f \in DOMAIN holding \ {"id", "currentPrice", "lastUpdated"} |-> holding[f]]

\* getHoldings(portfolioId)
getHoldings(hs, portfolioId) ==
    SelectSeq(hs, LAMBDA h : h.portfolioId = portfolioId)

\* createHolding(insertHolding), with the id and the time it draws
createHolding(hs, insertHolding, id, t) ==
    Append(hs, Spread(insertHolding,
                      [id |-> id, currentPrice |-> Null, lastUpdated |-> t]))

\* A faulty updateHolding, to test the properties against: it sets the
\* update under an id that is not in the map.
updateHoldingOrSet(hs, id, update, t) ==
    IF \E i \in DOMAIN hs : hs[i].id = id
    THEN [i \in DOMAIN hs |->
            IF hs[i].id = id
            THEN Spread(Spread(hs[i], update), [lastUpdated |-> t])
            ELSE hs[i]]
    ELSE Append(hs, Spread(update, [id |-> id, lastUpdated |-> t]))

\* A faulty updateHolding, to test the properties against: it spreads the
\* update over every holding of the map.
updateHoldingOfAll(hs, id, update, t) ==
    [i \in DOMAIN hs |-> Spread(Spread(hs[i], update), [lastUpdated |-> t])]

\* updateHolding(id, update): nothing happens when the id is not in the map
updateHolding(hs, id, update, t) ==
    [i \in DOMAIN hs |->
        IF hs[i].id = id
        THEN Spread(Spread(hs[i], update), [lastUpdated |-> t])
        ELSE hs[i]]

\* deleteHolding(id)
deleteHolding(hs, id) == Without(hs, id)

\* The storage call a request is suspended in, and what it does to the map.
NoCall == [op |-> "none"]

ApplyCall(hs, call, t) ==
    CASE call.op = "updateHolding" -> updateHolding(hs, call.id, call.update, t)
      [] call.op = "createHolding" -> createHolding(hs, call.insert, call.id, t)
      [] call.op = "deleteHolding" -> deleteHolding(hs, call.id)
      [] OTHER -> hs

\* updateHoldingFromTransaction, lines 420-424: the first holding of the
\* transaction's portfolio and symbol, in map order
MatchingHoldings(hs, transaction) ==
    SelectSeq(hs, LAMBDA h : h.portfolioId = transaction.portfolioId
                             /\ h.symbol = transaction.symbol)

\* A faulty averaging, to test the properties against: the mean of the two
\* prices, without the quantities as weights.
Unweighted(holding, existingQuantity, existingCost, transactionQuantity, transactionPrice) ==
    [op |-> "updateHolding", at |-> "S438", id |-> holding.id,
     update |-> Spread(holdingUpdate(holding),
                       [quantity |-> toString(Add(existingQuantity,
                                                  transactionQuantity)),
                        averageCost |-> toString(Div(Add(existingCost,
                                                         transactionPrice),
                                                     Num(2)))])]

\* updateHoldingFromTransaction, lines 428-441: a buy on the holding it
\* found, from the four numbers it parses
Averaged(holding, existingQuantity, existingCost, transactionQuantity, transactionPrice) ==
    LET newQuantity == Add(existingQuantity, transactionQuantity)
        newAverageCost ==
            Div(Add(Mul(existingQuantity, existingCost),
                    Mul(transactionQuantity, transactionPrice)), newQuantity)
    IN  [op |-> "updateHolding", at |-> "S438", id |-> holding.id,
         update |-> Spread(holdingUpdate(holding),
                           [quantity |-> toString(newQuantity),
                            averageCost |-> toString(newAverageCost)])]

\* A faulty buy, to test the properties against: the holding takes the
\* exchange and the currency of the transaction.
BuyExistingAsNew(holding, transaction) ==
    [op |-> "updateHolding", at |-> "S438", id |-> holding.id,
     update |-> Spread(holdingUpdate(holding),
                       [quantity |-> transaction.quantity,
                        averageCost |-> transaction.price,
                        exchange |-> transaction.exchange,
                        currency |-> transaction.currency])]

BuyExisting(holding, transaction) ==
    Averaged(holding, parseFloat(holding.quantity),
             parseFloat(holding.averageCost), parseFloat(transaction.quantity),
             parseFloat(transaction.price))

\* A faulty creation, to test the properties against: the transaction's
\* total amount as the cost of one unit.
BuyNewAtAmount(transaction, id) ==
    [op |-> "createHolding", at |-> "S445", id |-> id,
     insert |-> [portfolioId |-> transaction.portfolioId,
                 symbol |-> transaction.symbol,
                 companyName |-> transaction.symbol,
                 exchange |-> transaction.exchange,
                 currency |-> transaction.currency,
                 quantity |-> transaction.quantity,
                 averageCost |-> transaction.totalAmount]]

\* A faulty buy, to test the properties against: the exchange of the new
\* holding depends on the id it is given.
BuyNewById(transaction, id) ==
    [op |-> "createHolding", at |-> "S445", id |-> id,
     insert |-> [portfolioId |-> transaction.portfolioId,
                 symbol |-> transaction.symbol,
                 companyName |-> transaction.symbol,
                 exchange |-> IF id % 2 = 0 THEN transaction.exchange ELSE "OTC",
                 currency |-> transaction.currency,
                 quantity |-> transaction.quantity,
                 averageCost |-> transaction.price]]

\* updateHoldingFromTransaction, a buy that found no holding
BuyNew(transaction, id) ==
    [op |-> "createHolding", at |-> "S445", id |-> id,
     insert |-> [portfolioId |-> transaction.portfolioId,
                 symbol |-> transaction.symbol,
                 companyName |-> transaction.symbol,
                 exchange |-> transaction.exchange,
                 currency |-> transaction.currency,
                 quantity |-> transaction.quantity,
                 averageCost |-> transaction.price]]

\* A faulty sell, to test the properties against: it deletes the holding only
\* when less than nothing is left.
ReducedBelowZero(holding, newQuantity) ==
    IF Sign(newQuantity) < 0
    THEN [op |-> "deleteHolding", at |-> "S461", id |-> holding.id]
    ELSE [op |-> "updateHolding", at |-> "S464", id |-> holding.id,
          update |-> Spread(holdingUpdate(holding),
                            [quantity |-> toString(newQuantity)])]

\* updateHoldingFromTransaction, lines 455-467: a sell on the holding it
\* found, from the quantity left
Reduced(holding, newQuantity) ==
    IF LeqZero(newQuantity)
    THEN [op |-> "deleteHolding", at |-> "S461", id |-> holding.id]
    ELSE [op |-> "updateHolding", at |-> "S464", id |-> holding.id,
          update |-> Spread(holdingUpdate(holding),
                            [quantity |-> toString(newQuantity)])]

SellExisting(holding, transaction) ==
    Reduced(holding, Sub(parseFloat(holding.quantity),
                         parseFloat(transaction.quantity)))

\* Two faulty dispatches, to test the properties against: one applies every
\* type but a sell as a buy, the other opens a holding for a sell that found
\* none.
updateHoldingOfAnyType(hs, transaction, id) ==
    LET found == MatchingHoldings(hs, transaction)
    IN  CASE transaction.type = "sell" /\ found # <<>> ->
                SellExisting(found[1], transaction)
          [] transaction.type = "sell" /\ found = <<>> -> NoCall
          [] transaction.type # "sell" /\ found # <<>> ->
                BuyExisting(found[1], transaction)
          [] OTHER -> BuyNew(transaction, id)

updateHoldingOfAnySell(hs, transaction, id) ==
    LET found == MatchingHoldings(hs, transaction)
    IN  CASE transaction.type = "buy" /\ found # <<>> ->
                BuyExisting(found[1], transaction)
          [] transaction.type = "sell" /\ found # <<>> ->
                SellExisting(found[1], transaction)
          [] transaction.type \in {"buy", "sell"} /\ found = <<>> ->
                BuyNew(transaction, id)
          [] OTHER -> NoCall

\* updateHoldingFromTransaction: the storage call it makes for a transaction,
\* given the map it looks the holding up in and the id a new holding would get
updateHoldingFromTransaction(hs, transaction, id) ==
    LET found == MatchingHoldings(hs, transaction)
    IN  CASE transaction.type = "buy" /\ found # <<>> ->
                BuyExisting(found[1], transaction)
          [] transaction.type = "buy" /\ found = <<>> ->
                BuyNew(transaction, id)
          [] transaction.type = "sell" /\ found # <<>> ->
                SellExisting(found[1], transaction)
          [] OTHER -> NoCall

-----------------------------------------------------------------------------
(* The state after construction: initializeSampleData.                     *)

SamplePortfolios == {1, 2}

SampleHoldings ==
    << [id |-> 3, portfolioId |-> 1, symbol |-> "AAPL",
        companyName |-> "Apple Inc.", exchange |-> "NASDAQ", currency |-> "USD",
        quantity |-> Dec(50), averageCost |-> Places(15000, 2),
        currentPrice |-> Places(17550, 2), lastUpdated |-> 0],
       [id |-> 4, portfolioId |-> 1, symbol |-> "MSFT",
        companyName |-> "Microsoft Corporation", exchange |-> "NASDAQ",
        currency |-> "USD",
        quantity |-> Dec(25), averageCost |-> Places(28000, 2),
        currentPrice |-> Places(31025, 2), lastUpdated |-> 0],
       [id |-> 5, portfolioId |-> 2, symbol |-> "ASML",
        companyName |-> "ASML Holding N.V.", exchange |-> "AEX",
        currency |-> "EUR",
        quantity |-> Dec(10), averageCost |-> Places(58000, 2),
        currentPrice |-> Places(62050, 2), lastUpdated |-> 0] >>

\* The two sample buys are dated 30 and 15 days before construction.
DaySec == 86400

SampleTransactions ==
    << [id |-> 6, portfolioId |-> 1, symbol |-> "AAPL", type |-> "buy",
        quantity |-> Dec(50), price |-> Places(15000, 2),
        totalAmount |-> Places(750000, 2), fees |-> Places(999, 2),
        currency |-> "USD", exchange |-> "NASDAQ",
        date |-> 0 - 30 * DaySec, createdAt |-> 0],
       [id |-> 7, portfolioId |-> 1, symbol |-> "MSFT", type |-> "buy",
        quantity |-> Dec(25), price |-> Places(28000, 2),
        totalAmount |-> Places(700000, 2), fees |-> Places(999, 2),
        currency |-> "USD", exchange |-> "NASDAQ",
        date |-> 0 - 15 * DaySec, createdAt |-> 0] >>

SampleRates ==
    << [id |-> 8, fromCurrency |-> "USD", toCurrency |-> "EUR",
        rate |-> Places(8473, 4), lastUpdated |-> 0],
       [id |-> 9, fromCurrency |-> "EUR", toCurrency |-> "USD",
        rate |-> Places(11801, 4), lastUpdated |-> 0] >>

\* The ids 8 and 9 went to the two sample currency rates.
FirstFreeId == 10

-----------------------------------------------------------------------------
(* Requests.  A request slot holds the handler's local variables and the   *)
(* awaits it is suspended at, innermost first, each named by its line in   *)
(* storage.ts (S...) or routes.ts (R...).  A slot with no await left is    *)
(* free; a handler that answers frees its slot and leaves its response in  *)
(* `sent`.                                                                 *)

Slots == 1..MaxReq

Idle ==
    [kind |-> "none", stack |-> <<>>, body |-> <<>>,
     snap |-> <<>>, syms |-> <<>>, todo |-> <<>>, quote |-> Null,
     result |-> <<>>]

Free(r) == req[r].stack = <<>>

\* every request has been answered
Quiet == \A r \in Slots : Free(r)

\* A new request takes the first free slot: which free slot it takes makes
\* no difference to anything.
Takes(r) == Free(r) /\ \A q \in Slots : q < r => ~Free(q)

\* res.status(status).json(...): the response of a request of some kind; of
\* a quote the model keeps the price
Response(kind, status, price) == [kind |-> kind, status |-> status, price |-> price]

\* res.json(body) of a metrics read: the response with the body it carries
Reply(kind, status, body) ==
    [kind |-> kind, status |-> status, price |-> Null, body |-> body]

\* Slot r's handler answers and is over.
Answer(r, kind, status, price) ==
    /\ req' = [req EXCEPT ![r] = Idle]
    /\ sent' = Response(kind, status, price)

\* What a run may still use of a bound.
Left(what, max) == used[what] < max
Use(what) == [used EXCEPT ![what] = @ + 1]

\* The bodies a client posts to /api/portfolios/:portfolioId/transactions. The
\* portfolio is the route's parameter; quantity is left out of one body.
Pids == {1, 2}
Bought == {Dec(25), Dec(0), Dec(0 - 50), Text("abc")}
Sold == {Dec(25), Dec(50), Places(2, 1), Text("abc")}

TxBody(pid, type, quantity, price) ==
    [portfolioId |-> pid, symbol |-> "AAPL", type |-> type,
     quantity |-> quantity, price |-> price, totalAmount |-> Dec(100),
     fees |-> Undefined, currency |-> "GBP", exchange |-> "LSE", date |-> 0]

TxBodies ==
    {TxBody(pid, "buy", q, Dec(180)) : pid \in Pids, q \in Bought}
    \cup {TxBody(pid, "buy", Dec(25), Dec(0)) : pid \in Pids}
    \cup {TxBody(pid, "sell", q, Dec(180)) : pid \in Pids, q \in Sold}
    \cup {TxBody(pid, type, Dec(25), Dec(180)) :
            pid \in Pids, type \in {"dividend", "split"}}
    \cup {TxBody(1, "buy", Undefined, Dec(180))}

\* insertTransactionSchema.parse: every decimal column is a string, fees may
\* be absent; nothing else is required of the values
ParsesAsTransaction(body) ==
    /\ IsString(body.quantity)
    /\ IsString(body.price)
    /\ IsString(body.totalAmount)
    /\ IsString(body.fees) \/ body.fees \in {Undefined, Null}

\* createTransaction, lines 400-405
NewTransaction(body, id, t) ==
    Spread(body, [id |-> id, fees |-> OrElse(body.fees, Dec(0)), createdAt |-> t])

\* createTransaction from line 409 to the first await.  The storage call of
\* updateHoldingFromTransaction runs where it is made, in the turn that looked
\* the holding up: an async function runs up to its first await when called,
\* and updateHolding, createHolding and deleteHolding have none.  After it
\* updateHoldingFromTransaction, createTransaction and the handler wait.
Suspended(r, body, call) ==
    /\ holdings' = ApplyCall(holdings, call, now)
    /\ nextId' = IF call.op = "createHolding" THEN nextId + 2 ELSE nextId + 1
    /\ req' = [req EXCEPT ![r] =
            [Idle EXCEPT !.kind = "transaction", !.body = body,
                         !.stack = IF call.op = "none" THEN <<"S409", "R101">>
                                   ELSE <<call.at, "S409", "R101">>]]

\* A faulty createTransaction, to test the properties against: it looks the
\* holding up in the store as it was at construction, not as it is.
createTransactionOnStale(r, body, transaction) ==
    /\ transactions' = Append(transactions, transaction)
    /\ Suspended(r, body, updateHoldingFromTransaction(SampleHoldings,
                                                       transaction, nextId + 1))

\* A faulty createTransaction, to test the properties against: it sets the
\* transaction under the key of the last one stored.
createTransactionOverLast(r, body, transaction) ==
    /\ transactions' = [transactions EXCEPT ![Len(transactions)] = transaction]
    /\ Suspended(r, body, updateHoldingFromTransaction(holdings, transaction,
                                                       nextId + 1))

\* createTransaction, lines 399-409, of the parsed body
createTransaction(r, body, transaction) ==
    /\ transactions' = Append(transactions, transaction)
    /\ Suspended(r, body, updateHoldingFromTransaction(holdings, transaction,
                                                       nextId + 1))

\* POST /api/portfolios/:portfolioId/transactions up to its first await
PostTransaction(r, body) ==
    /\ Takes(r)
    /\ IF ~ParsesAsTransaction(body)
       THEN /\ Answer(r, "transaction", 400, Null)
            /\ UNCHANGED <<holdings, transactions, nextId, used>>
       ELSE /\ used' = Use("ops")
            /\ createTransaction(r, body, NewTransaction(body, nextId, now))
            /\ UNCHANGED sent
    /\ UNCHANGED <<portfolios, currencies, session, users, googleIdToUserId, marketData, now>>

\* createTransaction resumes after an await; the handler, resumed last,
\* answers 201
ResumeTransaction(r) ==
    /\ req[r].kind = "transaction"
    /\ req[r].stack # <<>>
    /\ IF Tail(req[r].stack) = <<>>
       THEN Answer(r, "transaction", 201, Null)
       ELSE /\ req' = [req EXCEPT ![r].stack = Tail(@)]
            /\ UNCHANGED sent
    /\ UNCHANGED <<portfolios, currencies, session, users, googleIdToUserId, holdings, transactions, marketData, nextId, now,
                   used>>

\* The bodies a client posts to /api/portfolios/:portfolioId/holdings.
HoldingBody(pid, quantity) ==
    [portfolioId |-> pid, symbol |-> "AAPL", companyName |-> "Apple",
     exchange |-> "NASDAQ", currency |-> "USD", quantity |-> quantity,
     averageCost |-> Dec(100)]

HoldingBodies ==
    {HoldingBody(pid, Dec(10)) : pid \in Pids}
    \cup {HoldingBody(1, Undefined)}

\* insertHoldingSchema.parse
ParsesAsHolding(body) == IsString(body.quantity) /\ IsString(body.averageCost)

\* POST /api/portfolios/:portfolioId/holdings up to its await
PostHolding(r, body) ==
    /\ Takes(r)
    /\ IF ~ParsesAsHolding(body)
       THEN /\ Answer(r, "holding", 400, Null)
            /\ UNCHANGED <<holdings, nextId, used>>
       ELSE /\ used' = Use("ops")
            /\ holdings' = createHolding(holdings, body, nextId, now)
            /\ nextId' = nextId + 1
            /\ req' = [req EXCEPT ![r] =
                    [Idle EXCEPT !.kind = "holding", !.body = body,
                                 !.stack = <<"R71">>]]
            /\ UNCHANGED sent
    /\ UNCHANGED <<portfolios, currencies, session, users, googleIdToUserId, transactions, marketData, now>>

\* the handler resumes and answers 201
ResumeHolding(r) ==
    /\ req[r].kind = "holding"
    /\ req[r].stack # <<>>
    /\ Answer(r, "holding", 201, Null)
    /\ UNCHANGED <<portfolios, currencies, session, users, googleIdToUserId, holdings, transactions, marketData, nextId, now,
                   used>>

-----------------------------------------------------------------------------
(* The market-data cache and GET /api/market-data/:symbol.  Of a quote the *)
(* model keeps the price; change, volume and marketCap are read by nobody. *)

\* String.prototype.toUpperCase on the symbols the model uses
toUpperCase(symbol) ==
    CASE symbol = "aapl" -> "AAPL"
      [] symbol = "usd" -> "USD"
      [] symbol = "msft" -> "MSFT"
      [] OTHER -> symbol

\* getMarketData(symbol): the entries under the key, none or one
getMarketData(md, symbol) == SelectSeq(md, LAMBDA e : e.symbol = symbol)

\* updateMarketData(data): Map.set under data.symbol
updateMarketData(md, symbol, price, id, t) ==
    LET data == [id |-> id, symbol |-> symbol, price |-> price, lastUpdated |-> t]
    IN  IF getMarketData(md, symbol) = <<>>
        THEN Append(md, data)
        ELSE [i \in DOMAIN md |-> IF md[i].symbol = symbol THEN data ELSE md[i]]

\* The freshness window of a cached quote: 5 minutes
QuoteWindow == 5 * 60

QuoteSymbols == {"AAPL"}
QuotePrices == {Places(18000, 2)}

\* the handler up to await storage.getMarketData(symbol)
GetQuote(r, symbol) ==
    /\ Takes(r)
    /\ Left("quotes", MaxQuotes)
    /\ used' = Use("quotes")
    /\ req' = [req EXCEPT ![r] =
            [Idle EXCEPT !.kind = "quote", !.body = [symbol |-> symbol],
                         !.snap = getMarketData(marketData, symbol),
                         !.stack = <<"R118">>]]
    /\ UNCHANGED <<portfolios, currencies, session, users, googleIdToUserId, holdings, transactions, marketData, nextId, now,
                   sent>>

\* The catch block and what follows it: 404 without a cached entry, else
\* the cached entry
QuoteFallback(r) ==
    IF req[r].snap = <<>>
    THEN Answer(r, "quote", 404, Null)
    ELSE Answer(r, "quote", 200, req[r].snap[1].price)

\* A faulty freshness test, to test the properties against: an entry as old
\* as the window is fetched again.
QuoteCachedAtWindow(r) ==
    /\ req[r].kind = "quote"
    /\ req[r].stack # <<>> /\ Head(req[r].stack) = "R118"
    /\ IF \/ req[r].snap = <<>>
          \/ now - req[r].snap[1].lastUpdated >= QuoteWindow
       THEN /\ req' = [req EXCEPT ![r].stack = <<"R123">>]
            /\ UNCHANGED sent
       ELSE QuoteFallback(r)
    /\ UNCHANGED <<portfolios, currencies, session, users, googleIdToUserId, holdings, transactions, marketData, nextId, now,
                   used>>

\* the cached entry is back: answer with it, or fetch when it is missing or
\* older than the window
QuoteCached(r) ==
    /\ req[r].kind = "quote"
    /\ req[r].stack # <<>> /\ Head(req[r].stack) = "R118"
    /\ IF \/ req[r].snap = <<>>
          \/ now - req[r].snap[1].lastUpdated > QuoteWindow
       THEN /\ req' = [req EXCEPT ![r].stack = <<"R123">>]
            /\ UNCHANGED sent
       ELSE QuoteFallback(r)
    /\ UNCHANGED <<portfolios, currencies, session, users, googleIdToUserId, holdings, transactions, marketData, nextId, now,
                   used>>

\* fetch settles: rejected, or resolved with a body still to be read
QuoteFetched(r, resolved) ==
    /\ req[r].kind = "quote"
    /\ req[r].stack # <<>> /\ Head(req[r].stack) = "R123"
    /\ IF resolved
       THEN /\ req' = [req EXCEPT ![r].stack = <<"R126">>]
            /\ UNCHANGED sent
       ELSE QuoteFallback(r)
    /\ UNCHANGED <<portfolios, currencies, session, users, googleIdToUserId, holdings, transactions, marketData, nextId, now,
                   used>>

\* response.json() settles: a body with a "Global Quote" of some price is
\* stored, any other body is thrown to the catch block
QuoteRead(r, price) ==
    /\ req[r].kind = "quote"
    /\ req[r].stack # <<>> /\ Head(req[r].stack) = "R126"
    /\ IF IsString(price)
       THEN /\ marketData' = updateMarketData(marketData,
                                toUpperCase(req[r].body.symbol), price,
                                nextId, now)
            /\ nextId' = nextId + 1
            /\ req' = [req EXCEPT ![r].stack = <<"R139">>, ![r].quote = price]
            /\ UNCHANGED sent
       ELSE /\ QuoteFallback(r)
            /\ UNCHANGED <<marketData, nextId>>
    /\ UNCHANGED <<portfolios, currencies, session, users, googleIdToUserId, holdings, transactions, now, used>>

\* the handler resumes after updateMarketData and answers with the new entry
QuoteStored(r) ==
    /\ req[r].kind = "quote"
    /\ req[r].stack # <<>> /\ Head(req[r].stack) = "R139"
    /\ Answer(r, "quote", 200, req[r].quote)
    /\ UNCHANGED <<portfolios, currencies, session, users, googleIdToUserId, holdings, transactions, marketData, nextId, now,
                   used>>

-----------------------------------------------------------------------------
(* The currency-rate cache and GET /api/currency/:from/:to.  The key of an *)
(* entry, `${fromCurrency}-${toCurrency}`, is the pair of its two fields.  *)

\* getCurrencyRate(fromCurrency, toCurrency): the entries under the key, none
\* or one
getCurrencyRate(cs, from, to) ==
    SelectSeq(cs, LAMBDA e : e.fromCurrency = from /\ e.toCurrency = to)

\* updateCurrencyRate(insertRate): Map.set under the key of the pair
updateCurrencyRate(cs, from, to, rate, id, t) ==
    LET data == [id |-> id, fromCurrency |-> from, toCurrency |-> to,
                 rate |-> rate, lastUpdated |-> t]
    IN  IF getCurrencyRate(cs, from, to) = <<>>
        THEN Append(cs, data)
        ELSE [i \in DOMAIN cs |->
                IF cs[i].fromCurrency = from /\ cs[i].toCurrency = to
                THEN data ELSE cs[i]]

\* The freshness window of a cached rate: 1 hour
RateWindow == 60 * 60

\* the handler up to await storage.getCurrencyRate(from.toUpperCase(),
\* to.toUpperCase())
GetRate(r, from, to) ==
    /\ Takes(r)
    /\ Left("quotes", MaxQuotes)
    /\ used' = Use("quotes")
    /\ req' = [req EXCEPT ![r] =
            [Idle EXCEPT !.kind = "rate", !.body = [from |-> from, to |-> to],
                         !.snap = getCurrencyRate(currencies, toUpperCase(from),
                                                  toUpperCase(to)),
                         !.stack = <<"R165">>]]
    /\ UNCHANGED <<portfolios, currencies, session, users, googleIdToUserId, holdings, transactions, marketData, nextId, now,
                   sent>>

\* A faulty catch block, to test the properties against: it answers 404
\* whether or not a rate is cached.
RateFallbackNotFound(r) == Answer(r, "rate", 404, Null)

\* The catch block and what follows it: 404 without a cached rate, else the
\* cached rate
RateFallback(r) ==
    IF req[r].snap = <<>>
    THEN Answer(r, "rate", 404, Null)
    ELSE Answer(r, "rate", 200, req[r].snap[1].rate)

\* the cached rate is back: answer with it, or fetch when it is missing or
\* older than the window
RateCached(r) ==
    /\ req[r].kind = "rate"
    /\ req[r].stack # <<>> /\ Head(req[r].stack) = "R165"
    /\ IF \/ req[r].snap = <<>>
          \/ now - req[r].snap[1].lastUpdated > RateWindow
       THEN /\ req' = [req EXCEPT ![r].stack = <<"R170">>]
            /\ UNCHANGED sent
       ELSE RateFallback(r)
    /\ UNCHANGED <<portfolios, currencies, session, users, googleIdToUserId, holdings, transactions, marketData, nextId, now,
                   used>>

\* fetch settles: rejected, or resolved with a body still to be read
RateFetched(r, resolved) ==
    /\ req[r].kind = "rate"
    /\ req[r].stack # <<>> /\ Head(req[r].stack) = "R170"
    /\ IF resolved
       THEN /\ req' = [req EXCEPT ![r].stack = <<"R173">>]
            /\ UNCHANGED sent
       ELSE RateFallback(r)
    /\ UNCHANGED <<portfolios, currencies, session, users, googleIdToUserId, holdings, transactions, marketData, nextId, now,
                   used>>

\* response.json() settles: a body with a "Realtime Currency Exchange Rate"
\* of some rate is stored, any other body is thrown to the catch block
RateRead(r, rate) ==
    /\ req[r].kind = "rate"
    /\ req[r].stack # <<>> /\ Head(req[r].stack) = "R173"
    /\ IF IsString(rate)
       THEN /\ currencies' = updateCurrencyRate(currencies,
                                toUpperCase(req[r].body.from),
                                toUpperCase(req[r].body.to), rate, nextId, now)
            /\ nextId' = nextId + 1
            /\ req' = [req EXCEPT ![r].stack = <<"R177">>, ![r].quote = rate]
            /\ UNCHANGED sent
       ELSE /\ RateFallback(r)
            /\ UNCHANGED <<currencies, nextId>>
    /\ UNCHANGED <<portfolios, session, users, googleIdToUserId, holdings, transactions, marketData, now, used>>

\* the handler resumes after updateCurrencyRate and answers with the new rate
RateStored(r) ==
    /\ req[r].kind = "rate"
    /\ req[r].stack # <<>> /\ Head(req[r].stack) = "R177"
    /\ Answer(r, "rate", 200, req[r].quote)
    /\ UNCHANGED <<portfolios, currencies, session, users, googleIdToUserId, holdings, transactions, marketData, nextId, now,
                   used>>

-----------------------------------------------------------------------------
(* POST /api/portfolios/:portfolioId/update-prices.  The fetch of the      *)
(* server's own market-data route is an await during which that route, and *)
(* every other request, may run; what it answers is not read.              *)

\* Array.from(new Set(holdings.map(h => h.symbol))): first occurrences
RECURSIVE Symbols(_)
Symbols(hs) ==
    IF hs = <<>> THEN <<>>
    ELSE <<hs[1].symbol>>
         \o Symbols(SelectSeq(Tail(hs), LAMBDA h : h.symbol # hs[1].symbol))

\* the handler up to await storage.getHoldings(portfolioId)
PostUpdatePrices(r, pid) ==
    /\ Takes(r)
    /\ Left("runs", MaxPriceRuns)
    /\ used' = Use("runs")
    /\ req' = [req EXCEPT ![r] =
            [Idle EXCEPT !.kind = "prices", !.body = [portfolioId |-> pid],
                         !.snap = getHoldings(holdings, pid),
                         !.stack = <<"R203">>]]
    /\ UNCHANGED <<portfolios, currencies, session, users, googleIdToUserId, holdings, transactions, marketData, nextId, now,
                   sent>>

\* The loop over the symbols moves to its next round: the fetch for the
\* first symbol left, or the answer when none is left.
NextSymbol(r, syms) ==
    IF syms = <<>>
    THEN Answer(r, "prices", 200, Null)
    ELSE /\ req' = [req EXCEPT ![r].stack = <<"R209">>, ![r].syms = syms,
                               ![r].todo = <<>>]
         /\ UNCHANGED sent

\* the holdings are back: the loop starts
PricesListed(r) ==
    /\ req[r].kind = "prices"
    /\ req[r].stack # <<>> /\ Head(req[r].stack) = "R203"
    /\ NextSymbol(r, Symbols(req[r].snap))
    /\ UNCHANGED <<portfolios, currencies, session, users, googleIdToUserId, holdings, transactions, marketData, nextId, now,
                   used>>

\* the fetch is over: storage.getMarketData(symbol) is called and awaited
PricesFetched(r) ==
    /\ req[r].kind = "prices"
    /\ req[r].stack # <<>> /\ Head(req[r].stack) = "R209"
    /\ LET found == getMarketData(marketData, Head(req[r].syms))
       IN  req' = [req EXCEPT ![r].stack = <<"R212">>,
                              ![r].quote = IF found = <<>> THEN Null
                                           ELSE found[1].price]
    /\ UNCHANGED sent
    /\ UNCHANGED <<portfolios, currencies, session, users, googleIdToUserId, holdings, transactions, marketData, nextId, now,
                   used>>

\* storage.updateHolding for one holding of the list taken at the start
WritePrice(hs, holding, price, t) ==
    updateHolding(hs, holding.id,
                  Spread(holdingUpdate(holding), [currentPrice |-> price]), t)

\* The inner loop's next round: the write for the first holding left, which
\* is awaited, or the next symbol when none is left.
PriceRound(r, todo) ==
    IF todo = <<>>
    THEN /\ NextSymbol(r, Tail(req[r].syms))
         /\ UNCHANGED holdings
    ELSE /\ holdings' = WritePrice(holdings, Head(todo), req[r].quote, now)
         /\ req' = [req EXCEPT ![r].stack = <<"R217">>, ![r].todo = Tail(todo)]
         /\ UNCHANGED sent

\* the quote is back: without one the symbol is skipped, with one the
\* holdings of the symbol in the list are written one by one
PricesQuoted(r) ==
    /\ req[r].kind = "prices"
    /\ req[r].stack # <<>> /\ Head(req[r].stack) = "R212"
    /\ IF req[r].quote = Null
       THEN PriceRound(r, <<>>)
       ELSE PriceRound(r, SelectSeq(req[r].snap,
                            LAMBDA h : h.symbol = Head(req[r].syms)))
    /\ UNCHANGED <<portfolios, currencies, session, users, googleIdToUserId, transactions, marketData, nextId, now, used>>

\* one write is over
PricesWritten(r) ==
    /\ req[r].kind = "prices"
    /\ req[r].stack # <<>> /\ Head(req[r].stack) = "R217"
    /\ PriceRound(r, req[r].todo)
    /\ UNCHANGED <<portfolios, currencies, session, users, googleIdToUserId, transactions, marketData, nextId, now, used>>

-----------------------------------------------------------------------------
(* The metrics reads: GET /api/portfolios/:portfolioId/holdings and        *)
(* GET /api/portfolios/:id.  The metrics are JavaScript numbers.           *)

\* getHoldingsWithMetrics, lines 374-384: the percentage behind its guard,
\* and the holding returned with its metrics
WithMetrics(holding, currentValue, totalCost, totalGain, md) ==
    [holding |-> holding,
     currentValue |-> currentValue,
     totalGain |-> totalGain,
     totalGainPercent |-> IF GtZero(totalCost)
                          THEN Mul(Div(totalGain, totalCost), Num(100))
                          ELSE Zero,
     marketData |-> md]

\* lines 371-373
Valued(holding, currentValue, totalCost, md) ==
    WithMetrics(holding, currentValue, totalCost, Sub(currentValue, totalCost), md)

\* lines 367-372
Priced(holding, currentPrice, quantity, averageCost, md) ==
    Valued(holding, Mul(currentPrice, quantity), Mul(averageCost, quantity), md)

\* A faulty callback, to test the properties against: it parses currentPrice
\* as it is, null included.
HoldingMetricsOfPrice(holding, md) ==
    Priced(holding, parseFloat(holding.currentPrice),
           parseFloat(holding.quantity), parseFloat(holding.averageCost),
           getMarketData(md, holding.symbol))

\* getHoldingsWithMetrics, the callback of holdings.map for one holding, with
\* the market-data map as it is when the callback runs
HoldingMetrics(holding, md) ==
    Priced(holding, parseFloat(OrElse(holding.currentPrice, Dec(0))),
           parseFloat(holding.quantity), parseFloat(holding.averageCost),
           getMarketData(md, holding.symbol))

\* getHoldingsWithMetrics, lines 366-385: holdings.map over the list that
\* getHoldings returned
HoldingsWithMetrics(hs, md) == [i \in DOMAIN hs |-> HoldingMetrics(hs[i], md)]

\* getPortfolioWithMetrics, lines 303-310: the loop over the holdings, from
\* the totals so far
RECURSIVE TotalValue(_, _)
TotalValue(hs, totalValue) ==
    IF hs = <<>> THEN totalValue
    ELSE TotalValue(Tail(hs),
            Add(totalValue,
                Mul(parseFloat(OrElse(hs[1].currentPrice, Dec(0))),
                    parseFloat(hs[1].quantity))))

RECURSIVE TotalCost(_, _)
TotalCost(hs, totalCost) ==
    IF hs = <<>> THEN totalCost
    ELSE TotalCost(Tail(hs),
            Add(totalCost,
                Mul(parseFloat(hs[1].averageCost), parseFloat(hs[1].quantity))))

\* lines 316-317: dividendTransactions.reduce, from the sum so far
RECURSIVE AnnualDividends(_, _)
AnnualDividends(ts, sum) ==
    IF ts = <<>> THEN sum
    ELSE AnnualDividends(Tail(ts), Add(sum, parseFloat(ts[1].totalAmount)))

\* lines 312-327: the portfolio returned with its metrics
Totals(id, totalValue, totalCost, totalGain, annualDividends, holdingsCount) ==
    [id |-> id,
     totalValue |-> totalValue,
     totalGain |-> totalGain,
     totalGainPercent |-> IF GtZero(totalCost)
                          THEN Mul(Div(totalGain, totalCost), Num(100))
                          ELSE Zero,
     dividendYield |-> IF GtZero(totalValue)
                       THEN Mul(Div(annualDividends, totalValue), Num(100))
                       ELSE Zero,
     holdingsCount |-> holdingsCount]

Summed(id, totalValue, totalCost, annualDividends, holdingsCount) ==
    Totals(id, totalValue, totalCost, Sub(totalValue, totalCost),
           annualDividends, holdingsCount)

\* getPortfolioWithMetrics(id): no portfolio (the empty sequence) for an id
\* that is not in the map, else the portfolio with its metrics
getPortfolioWithMetrics(ps, hs, ts, id) ==
    IF id \notin ps THEN <<>>
    ELSE << Summed(id,
                   TotalValue(getHoldings(hs, id), Zero),
                   TotalCost(getHoldings(hs, id), Zero),
                   AnnualDividends(
                       SelectSeq(ts, LAMBDA t : t.portfolioId = id
                                                /\ t.type = "dividend"), Zero),
                   Len(getHoldings(hs, id))) >>

\* GET /api/portfolios/:portfolioId/holdings up to the await in
\* getHoldingsWithMetrics: getHoldings has filtered the map into a list
GetHoldings(r, pid) ==
    /\ Takes(r)
    /\ Left("reads", MaxReads)
    /\ used' = Use("reads")
    /\ req' = [req EXCEPT ![r] =
            [Idle EXCEPT !.kind = "holdings", !.body = [portfolioId |-> pid],
                         !.snap = getHoldings(holdings, pid),
                         !.stack = <<"S364", "R58">>]]
    /\ UNCHANGED <<portfolios, currencies, session, users, googleIdToUserId, holdings, transactions,
                   marketData, nextId, now, sent>>

\* A faulty read, to test the properties against: after the await it takes
\* the quantity of each holding of its list from the store as it is by then.
HoldingsMappedTorn(r) ==
    /\ req[r].kind = "holdings"
    /\ req[r].stack # <<>> /\ Head(req[r].stack) = "S364"
    /\ req' = [req EXCEPT ![r].stack = <<"R58">>,
                          ![r].result = [i \in DOMAIN req[r].snap |->
                              Priced(req[r].snap[i],
                                     parseFloat(OrElse(req[r].snap[i].currentPrice, Dec(0))),
                                     parseFloat((SelectSeq(holdings, LAMBDA h : h.id = req[r].snap[i].id)
                                                 \o <<req[r].snap[i]>>)[1].quantity),
                                     parseFloat(req[r].snap[i].averageCost),
                                     getMarketData(marketData, req[r].snap[i].symbol))]]
    /\ UNCHANGED <<portfolios, currencies, session, users, googleIdToUserId, holdings, transactions,
                   marketData, nextId, now, sent, used>>

\* A faulty read, to test the properties against: it writes price "0" into
\* the stored holdings that have none.
HoldingsMappedAndPriced(r) ==
    /\ req[r].kind = "holdings"
    /\ req[r].stack # <<>> /\ Head(req[r].stack) = "S364"
    /\ req' = [req EXCEPT ![r].stack = <<"R58">>,
                          ![r].result = HoldingsWithMetrics(req[r].snap, marketData)]
    /\ holdings' = [i \in DOMAIN holdings |->
                        [holdings[i] EXCEPT !.currentPrice = OrElse(@, Dec(0))]]
    /\ UNCHANGED <<portfolios, currencies, session, users, googleIdToUserId, transactions,
                   marketData, nextId, now, sent, used>>

\* getHoldingsWithMetrics resumes with the list and maps it; the handler
\* waits for it
HoldingsMapped(r) ==
    /\ req[r].kind = "holdings"
    /\ req[r].stack # <<>> /\ Head(req[r].stack) = "S364"
    /\ req' = [req EXCEPT ![r].stack = <<"R58">>,
                          ![r].result = HoldingsWithMetrics(req[r].snap, marketData)]
    /\ UNCHANGED <<portfolios, currencies, session, users, googleIdToUserId, holdings, transactions,
                   marketData, nextId, now, sent, used>>

\* the handler resumes and answers with the list
HoldingsAnswered(r) ==
    /\ req[r].kind = "holdings"
    /\ req[r].stack # <<>> /\ Head(req[r].stack) = "R58"
    /\ req' = [req EXCEPT ![r] = Idle]
    /\ sent' = Reply("holdings", 200, req[r].result)
    /\ UNCHANGED <<portfolios, currencies, session, users, googleIdToUserId, holdings, transactions,
                   marketData, nextId, now, used>>

\* GET /api/portfolios/:id up to its await: getPortfolioWithMetrics has no
\* await and has run
GetPortfolio(r, id) ==
    /\ Takes(r)
    /\ Left("reads", MaxReads)
    /\ used' = Use("reads")
    /\ req' = [req EXCEPT ![r] =
            [Idle EXCEPT !.kind = "portfolio", !.body = [portfolioId |-> id],
                         !.result = getPortfolioWithMetrics(portfolios, holdings,
                                                            transactions, id),
                         !.stack = <<"R20">>]]
    /\ UNCHANGED <<portfolios, currencies, session, users, googleIdToUserId, holdings, transactions,
                   marketData, nextId, now, sent>>

\* the handler resumes: 404 without a portfolio, else the portfolio
PortfolioAnswered(r) ==
    /\ req[r].kind = "portfolio"
    /\ req[r].stack # <<>> /\ Head(req[r].stack) = "R20"
    /\ req' = [req EXCEPT ![r] = Idle]
    /\ sent' = IF req[r].result = <<>>
               THEN Reply("portfolio", 404, <<>>)
               ELSE Reply("portfolio", 200, req[r].result)
    /\ UNCHANGED <<portfolios, currencies, session, users, googleIdToUserId, holdings, transactions,
                   marketData, nextId, now, used>>

\* POST /api/portfolios up to its await: createPortfolio has set the new
\* portfolio under a fresh id.  Of a portfolio the model keeps the id.
PostPortfolio(r) ==
    /\ Takes(r)
    /\ Left("ops", MaxOps)
    /\ used' = Use("ops")
    /\ portfolios' = portfolios \cup {nextId}
    /\ nextId' = nextId + 1
    /\ req' = [req EXCEPT ![r] = [Idle EXCEPT !.kind = "created", !.stack = <<"R33">>]]
    /\ UNCHANGED <<currencies, session, users, googleIdToUserId, holdings, transactions, marketData, now, sent>>

\* the handler resumes and answers 201
PortfolioCreated(r) ==
    /\ req[r].kind = "created"
    /\ req[r].stack # <<>> /\ Head(req[r].stack) = "R33"
    /\ Answer(r, "created", 201, Null)
    /\ UNCHANGED <<portfolios, currencies, session, users, googleIdToUserId, holdings, transactions,
                   marketData, nextId, now, used>>

\* deletePortfolio(id): Map.delete on the portfolios, and on nothing else
deletePortfolio(ps, id) == ps \ {id}

\* DELETE /api/portfolios/:id up to its await: deletePortfolio has removed
\* the key and returns whether it was there
DeletePortfolio(r, id) ==
    /\ Takes(r)
    /\ portfolios' = deletePortfolio(portfolios, id)
    /\ req' = [req EXCEPT ![r] =
            [Idle EXCEPT !.kind = "deleted", !.stack = <<"R45">>,
                         !.result = IF id \in portfolios THEN <<id>> ELSE <<>>]]
    /\ UNCHANGED <<currencies, session, users, googleIdToUserId, holdings, transactions,
                   marketData, nextId, now, sent, used>>

\* the handler resumes and answers: 404 when nothing was deleted
PortfolioDeleted(r) ==
    /\ req[r].kind = "deleted"
    /\ req[r].stack # <<>> /\ Head(req[r].stack) = "R45"
    /\ Answer(r, "deleted", IF req[r].result = <<>> THEN 404 ELSE 200, Null)
    /\ UNCHANGED <<portfolios, currencies, session, users, googleIdToUserId, holdings,
                   transactions, marketData, nextId, now, used>>

\* ---- The list of a portfolio's transactions ----

\* Array.prototype.sort with (a, b) => b.date.getTime() - a.date.getTime():
\* later dates first; the sort is stable, so equal dates keep their order
RECURSIVE SortNewestFirst(_)
SortNewestFirst(ts) ==
    IF ts = <<>> THEN <<>>
    ELSE LET front == SortNewestFirst(SubSeq(ts, 1, Len(ts) - 1))
             last == ts[Len(ts)]
             ahead == SelectSeq(front, LAMBDA t : t.date >= last.date)
             behind == SelectSeq(front, LAMBDA t : t.date < last.date)
         IN  ahead \o <<last>> \o behind

\* MemStorage.getTransactions: the portfolio's transactions, sorted
getTransactions(ts, portfolioId) ==
    SortNewestFirst(SelectSeq(ts, LAMBDA t : t.portfolioId = portfolioId))

\* The default of getRecentTransactions' parameter limit
DefaultLimit == 5

\* MemStorage.getRecentTransactions after its await: slice(0, limit) of the
\* list getTransactions gave; limit is <<>> when the caller passes none, and
\* a limit below zero counts from the end of the list
getRecentTransactions(sorted, limit) ==
    LET n == IF limit = <<>> THEN DefaultLimit ELSE limit[1]
        end == IF n < 0 THEN Len(sorted) + n
               ELSE IF n > Len(sorted) THEN Len(sorted) ELSE n
    IN  SubSeq(sorted, 1, end)

\* GET /api/portfolios/:portfolioId/transactions up to its await.  The query
\* is <<>> without ?limit= and <<n>> for the decimal digits of n, which
\* parseInt turns into n; the route calls getRecentTransactions when the
\* number is truthy, and getTransactions itself when it is 0 or there is none.
\* Either way getTransactions has run before the await.
GetTransactions(r, portfolioId, query) ==
    /\ Takes(r)
    /\ req' = [req EXCEPT ![r] =
            [Idle EXCEPT !.kind = "ledger",
                         !.body = [portfolioId |-> portfolioId, limit |-> query],
                         !.snap = getTransactions(transactions, portfolioId),
                         !.stack = IF query # <<>> /\ query[1] # 0
                                   THEN <<"S415", "R86">> ELSE <<"R86">>]]
    /\ UNCHANGED <<portfolios, currencies, session, users, googleIdToUserId, holdings,
                   transactions, marketData, nextId, now, sent, used>>

\* getRecentTransactions resumes and slices
TransactionsSliced(r) ==
    /\ req[r].kind = "ledger"
    /\ req[r].stack # <<>> /\ Head(req[r].stack) = "S415"
    /\ req' = [req EXCEPT ![r].snap = getRecentTransactions(req[r].snap,
                                                            req[r].body.limit),
                          ![r].stack = Tail(req[r].stack)]
    /\ UNCHANGED <<portfolios, currencies, session, users, googleIdToUserId, holdings,
                   transactions, marketData, nextId, now, sent, used>>

\* the handler resumes and answers with the list
TransactionsAnswered(r) ==
    /\ req[r].kind = "ledger"
    /\ req[r].stack # <<>> /\ Head(req[r].stack) = "R86"
    /\ req' = [req EXCEPT ![r] = Idle]
    /\ sent' = Reply("ledger", 200, req[r].snap)
    /\ UNCHANGED <<portfolios, currencies, session, users, googleIdToUserId, holdings,
                   transactions, marketData, nextId, now, used>>

-----------------------------------------------------------------------------
(* Authentication.  requireAuth either calls next() or answers; what it    *)
(* does is the number of its calls of next and the status it sends, 0 for  *)
(* none.                                                                   *)

\* A faulty requireAuth, to test the properties against: it lets every
\* request through.
requireAuthOpen(isAuthenticated) == [next |-> 1, status |-> 0]

\* requireAuth(req, res, next), of the value of req.isAuthenticated()
requireAuth(isAuthenticated) ==
    IF isAuthenticated THEN [next |-> 1, status |-> 0]
    ELSE [next |-> 0, status |-> 401]

\* An endpoint mounted behind a middleware that has done `did`: its handler
\* runs, in the same turn, when the middleware has called next(), and the
\* middleware's answer is the response when it has not.
Behind(did, Handler) ==
    IF did.next = 0
    THEN /\ sent' = Response("auth", did.status, Null)
         /\ UNCHANGED <<portfolios, currencies, session, users, googleIdToUserId, holdings, transactions,
                        marketData, nextId, now, req, used>>
    ELSE did.status = 0 /\ Handler

\* GET /auth/google/callback after a successful sign-in: the session holds
\* the user
Login ==
    /\ ~session
    /\ session' = TRUE
    /\ UNCHANGED <<portfolios, currencies, users, googleIdToUserId, holdings,
                   transactions, marketData, nextId, now, req, sent, used>>

\* POST /auth/logout: req.logout and session.destroy
Logout ==
    /\ session
    /\ session' = FALSE
    /\ UNCHANGED <<portfolios, currencies, users, googleIdToUserId, holdings,
                   transactions, marketData, nextId, now, req, sent, used>>

-----------------------------------------------------------------------------
(* The users and the verify callback of the Google strategy (auth.ts), run *)
(* by passport for every GET /auth/google/callback that Google has         *)
(* accepted.  Of a profile the model keeps the Google id.  Its awaits are  *)
(* labelled A.                                                             *)

\* getUserByGoogleId(googleId): the user under the id the index has for the
\* Google id, none or one
getUserByGoogleId(us, index, googleId) ==
    IF googleId \notin DOMAIN index THEN <<>>
    ELSE SelectSeq(us, LAMBDA u : u.id = index[googleId])

\* createUser(insertUser): the record, set under a new id
createUser(us, insertUser, id, t) ==
    Append(us, Spread(insertUser,
                      [id |-> id, accessToken |-> Undefined, createdAt |-> t]))

\* this.googleIdToUserId.set(user.googleId, user.id)
SetGoogleId(index, googleId, id) ==
    [g \in DOMAIN index \cup {googleId} |-> IF g = googleId THEN id ELSE index[g]]

\* updateUserToken(userId, accessToken); no user is ever removed, so the
\* user of a caller that holds its id is found
updateUserToken(us, userId, accessToken) ==
    [i \in DOMAIN us |->
        IF us[i].id = userId THEN Spread(us[i], [accessToken |-> accessToken])
        ELSE us[i]]

\* the verify callback up to await storage.getUserByGoogleId(profile.id)
SignIn(r, googleId, accessToken) ==
    /\ Takes(r)
    /\ Left("signins", MaxSignIns)
    /\ used' = Use("signins")
    /\ req' = [req EXCEPT ![r] =
            [Idle EXCEPT !.kind = "signin",
                         !.body = [googleId |-> googleId, accessToken |-> accessToken],
                         !.snap = getUserByGoogleId(users, googleIdToUserId, googleId),
                         !.stack = <<"A20">>]]
    /\ UNCHANGED <<portfolios, currencies, session, users, googleIdToUserId, holdings,
                   transactions, marketData, nextId, now, sent>>

\* the user is back: without one, createUser is called and awaited; with
\* one, updateUserToken
UserLooked(r) ==
    /\ req[r].kind = "signin"
    /\ req[r].stack # <<>> /\ Head(req[r].stack) = "A20"
    /\ IF req[r].snap = <<>>
       THEN /\ users' = createUser(users, [googleId |-> req[r].body.googleId],
                                   nextId, now)
            /\ googleIdToUserId' = SetGoogleId(googleIdToUserId,
                                               req[r].body.googleId, nextId)
            /\ nextId' = nextId + 1
            /\ req' = [req EXCEPT ![r].stack = <<"A24">>,
                                  ![r].snap = <<users'[Len(users')]>>]
       ELSE /\ users' = updateUserToken(users, req[r].snap[1].id,
                                        req[r].body.accessToken)
            /\ req' = [req EXCEPT ![r].stack = <<"A33">>]
            /\ UNCHANGED <<googleIdToUserId, nextId>>
    /\ UNCHANGED <<portfolios, currencies, session, holdings, transactions, marketData,
                   now, sent, used>>

\* the new user is back: updateUserToken is called and awaited
UserCreated(r) ==
    /\ req[r].kind = "signin"
    /\ req[r].stack # <<>> /\ Head(req[r].stack) = "A24"
    /\ users' = updateUserToken(users, req[r].snap[1].id, req[r].body.accessToken)
    /\ req' = [req EXCEPT ![r].stack = <<"A33">>]
    /\ UNCHANGED <<portfolios, currencies, session, googleIdToUserId, holdings,
                   transactions, marketData, nextId, now, sent, used>>

\* the token is stored: done(null, user) with the user looked up or created
UserDone(r) ==
    /\ req[r].kind = "signin"
    /\ req[r].stack # <<>> /\ Head(req[r].stack) = "A33"
    /\ req' = [req EXCEPT ![r] = Idle]
    /\ sent' = Reply("signin", 302, req[r].snap)
    /\ UNCHANGED <<portfolios, currencies, session, users, googleIdToUserId, holdings,
                   transactions, marketData, nextId, now, used>>

-----------------------------------------------------------------------------
(* The clock, and the specification.                                       *)

Tick ==
    /\ Left("ticks", MaxClock)
    /\ used' = Use("ticks")
    /\ now' = now + 1
    /\ UNCHANGED <<portfolios, currencies, session, users, googleIdToUserId, holdings, transactions, marketData, nextId, req,
                   sent>>

\* Time passes between two turns of the event loop.
Pass(d) ==
    /\ Left("ticks", MaxClock)
    /\ used' = Use("ticks")
    /\ now' = now + d
    /\ UNCHANGED <<portfolios, currencies, session, users, googleIdToUserId, holdings, transactions, marketData, nextId, req,
                   sent>>

Init ==
    /\ portfolios = SamplePortfolios
    /\ holdings = SampleHoldings
    /\ transactions = SampleTransactions
    /\ marketData = <<>>
    /\ currencies = SampleRates
    /\ session = FALSE
    /\ users = <<>>
    /\ googleIdToUserId = <<>>
    /\ nextId = FirstFreeId
    /\ now = 0
    /\ req = [r \in Slots |-> Idle]
    /\ sent = Response("none", 0, Null)
    /\ used = [what \in {"ops", "runs", "quotes", "ticks", "reads", "signins"} |-> 0]

\* The transaction engine, one request at a time: every request is answered
\* before the next one arrives.
Next ==
    \/ \E body \in TxBodies : Left("ops", MaxOps) /\ PostTransaction(1, body)
    \/ ResumeTransaction(1)
    \/ \E body \in HoldingBodies : Left("ops", MaxOps) /\ PostHolding(1, body)
    \/ ResumeHolding(1)

Spec == Init /\ [][Next]_vars

\* Buys of a symbol portfolio 2 holds nothing of, one request at a time.
BuyBodies ==
    {TxBody(2, "buy", Dec(q), Dec(p)) : q \in {1, 25, 50}, p \in {7, 150}}

NextBuys ==
    \/ \E body \in BuyBodies : Left("ops", MaxBuys) /\ PostTransaction(1, body)
    \/ ResumeTransaction(1)

SpecBuys == Init /\ [][NextBuys]_vars

\* The transaction engine with requests in flight together, switching at
\* every await.
OverlapBodies ==
    {TxBody(pid, "buy", Dec(25), Dec(180)) : pid \in Pids}
    \cup {TxBody(pid, "sell", Dec(50), Dec(180)) : pid \in Pids}

NextOverlap ==
    \/ \E r \in Slots, body \in OverlapBodies :
            Left("ops", MaxOps) /\ PostTransaction(r, body)
    \/ \E r \in Slots : ResumeTransaction(r)
    \/ \E r \in Slots, body \in HoldingBodies :
            Left("ops", MaxOps) /\ PostHolding(r, body)
    \/ \E r \in Slots : ResumeHolding(r)
    \/ Tick

SpecOverlap == Init /\ [][NextOverlap]_vars

\* Price updates: the market-data route and update-prices, with
\* transactions posted while they run.
PriceBodies ==
    {TxBody(1, type, Dec(25), Dec(180)) : type \in {"buy", "sell"}}
    \cup {TxBody(1, "sell", Dec(50), Dec(180))}

NextPrices ==
    \/ \E r \in Slots, body \in PriceBodies :
            Left("ops", MaxOps) /\ PostTransaction(r, body)
    \/ \E r \in Slots : ResumeTransaction(r)
    \/ \E r \in Slots, symbol \in QuoteSymbols : GetQuote(r, symbol)
    \/ \E r \in Slots : QuoteCached(r)
    \/ \E r \in Slots, resolved \in BOOLEAN : QuoteFetched(r, resolved)
    \/ \E r \in Slots, price \in QuotePrices \cup {Undefined} : QuoteRead(r, price)
    \/ \E r \in Slots : QuoteStored(r)
    \/ \E r \in Slots, pid \in Pids : PostUpdatePrices(r, pid)
    \/ \E r \in Slots : PricesListed(r)
    \/ \E r \in Slots : PricesFetched(r)
    \/ \E r \in Slots : PricesQuoted(r)
    \/ \E r \in Slots : PricesWritten(r)
    \/ Tick

SpecPrices == Init /\ [][NextPrices]_vars

\* The two caches, one request at a time, with the time between two
\* requests a freshness window or a second more.
RatePairs == {<<"USD", "EUR">>, <<"usd", "EUR">>, <<"EUR", "GBP">>}
Rates == {Places(8500, 4)}

NextFresh ==
    \/ \E symbol \in QuoteSymbols : GetQuote(1, symbol)
    \/ QuoteCached(1)
    \/ \E resolved \in BOOLEAN : QuoteFetched(1, resolved)
    \/ \E price \in QuotePrices \cup {Undefined} : QuoteRead(1, price)
    \/ QuoteStored(1)
    \/ \E pair \in RatePairs : GetRate(1, pair[1], pair[2])
    \/ RateCached(1)
    \/ \E resolved \in BOOLEAN : RateFetched(1, resolved)
    \/ \E rate \in Rates \cup {Undefined} : RateRead(1, rate)
    \/ RateStored(1)
    \/ \E d \in {QuoteWindow, QuoteWindow + 1, RateWindow, RateWindow + 1} :
            (\A r \in Slots : Free(r)) /\ Pass(d)

SpecFresh == Init /\ [][NextFresh]_vars

\* The ledger alone, one request at a time, at different times.
LedgerBodies ==
    {TxBody(pid, "buy", Dec(25), Dec(180)) : pid \in Pids}
    \cup {TxBody(1, "sell", q, Dec(180)) : q \in {Dec(50), Places(2, 1)}}
    \cup {TxBody(2, "sell", Dec(25), Dec(180)), TxBody(1, "dividend", Dec(25), Dec(180))}

NextLedger ==
    \/ \E body \in LedgerBodies : Left("ops", MaxOps) /\ PostTransaction(1, body)
    \/ ResumeTransaction(1)
    \/ Tick

SpecLedger == Init /\ [][NextLedger]_vars

\* The metrics reads after transactions, one request at a time.  0 is the
\* id of no portfolio; FirstFreeId is the id of none until a portfolio made
\* by the first POST has it, and that portfolio has no holdings.
MetricBodies ==
    {TxBody(pid, "buy", q, Dec(180)) : pid \in Pids, q \in {Dec(25), Dec(0 - 50)}}
    \cup {TxBody(2, "buy", Dec(25), Dec(0)), TxBody(1, "sell", Places(2, 1), Dec(180))}
    \cup {TxBody(1, "buy", Dec(0 - 150), Dec(180))}
    \cup {TxBody(pid, "dividend", Dec(25), Dec(180)) : pid \in Pids}

ReadIds == Pids \cup {0, FirstFreeId}

NextMetrics ==
    \/ \E body \in MetricBodies : Left("ops", MaxOps) /\ PostTransaction(1, body)
    \/ ResumeTransaction(1)
    \/ \E pid \in ReadIds : GetHoldings(1, pid)
    \/ HoldingsMapped(1)
    \/ HoldingsAnswered(1)
    \/ \E id \in ReadIds : GetPortfolio(1, id)
    \/ PortfolioAnswered(1)
    \/ PostPortfolio(1)
    \/ PortfolioCreated(1)

SpecMetrics == Init /\ [][NextMetrics]_vars

\* The metrics reads with a transaction or update-prices in flight,
\* switching at every await: the writers take slot 1, and a read takes slot 2
\* while a writer holds slot 1.  A market-data refresh, which gives
\* update-prices a price to write, runs while no other request does.
ReadBodies ==
    {TxBody(1, "buy", Dec(25), Dec(180)), TxBody(1, "sell", Dec(50), Dec(180))}

NextReads ==
    \/ \E body \in ReadBodies : Left("ops", MaxWrites) /\ PostTransaction(1, body)
    \/ ResumeTransaction(1)
    \/ \E symbol \in QuoteSymbols : Free(2) /\ GetQuote(1, symbol)
    \/ QuoteCached(1)
    \/ \E resolved \in BOOLEAN : QuoteFetched(1, resolved)
    \/ \E price \in QuotePrices \cup {Undefined} : QuoteRead(1, price)
    \/ QuoteStored(1)
    \/ PostUpdatePrices(1, 1)
    \/ PricesListed(1)
    \/ PricesFetched(1)
    \/ PricesQuoted(1)
    \/ PricesWritten(1)
    \/ req[1].kind # "quote" /\ GetHoldings(2, 1)
    \/ HoldingsMapped(2)
    \/ HoldingsAnswered(2)
    \/ req[1].kind # "quote" /\ GetPortfolio(2, 1)
    \/ PortfolioAnswered(2)

SpecReads == Init /\ [][NextReads]_vars

\* The API behind requireAuth, for a caller who signs in and out: a write
\* and a read, one request of the API at a time.
AuthBodies == {TxBody(1, "buy", Dec(25), Dec(180)), TxBody(1, "buy", Text("abc"), Dec(180))}

NextAuth ==
    \/ Login
    \/ Logout
    \/ \E body \in AuthBodies :
            Left("ops", MaxOps) /\ Behind(requireAuth(session), PostTransaction(1, body))
    \/ ResumeTransaction(1)
    \/ \E id \in ReadIds : Behind(requireAuth(session), GetPortfolio(1, id))
    \/ PortfolioAnswered(1)

SpecAuth == Init /\ [][NextAuth]_vars

\* The sign-ins of two Google accounts, their callbacks switching at every
\* await.
GoogleIds == {"g1", "g2"}
AccessTokens == {Text("ya29.a"), Text("ya29.b")}

NextSignIn ==
    \/ \E r \in Slots, googleId \in GoogleIds, accessToken \in AccessTokens :
            SignIn(r, googleId, accessToken)
    \/ \E r \in Slots : UserLooked(r)
    \/ \E r \in Slots : UserCreated(r)
    \/ \E r \in Slots : UserDone(r)

SpecSignIn == Init /\ [][NextSignIn]_vars

\* Portfolios created and deleted, with holdings and transactions posted
\* under the ids of portfolios that exist, have existed or never did, one
\* request at a time.
PortfolioBodies == {TxBody(id, "buy", Dec(25), Dec(180)) : id \in ReadIds}
PortfolioHoldings == {HoldingBody(id, Dec(10)) : id \in ReadIds}

NextPortfolios ==
    \/ PostPortfolio(1)
    \/ PortfolioCreated(1)
    \/ \E id \in ReadIds : DeletePortfolio(1, id)
    \/ PortfolioDeleted(1)
    \/ \E body \in PortfolioBodies : Left("ops", MaxOps) /\ PostTransaction(1, body)
    \/ ResumeTransaction(1)
    \/ \E body \in PortfolioHoldings : Left("ops", MaxOps) /\ PostHolding(1, body)
    \/ ResumeHolding(1)

SpecPortfolios == Init /\ [][NextPortfolios]_vars

\* The market-data route asked for symbols as clients write them, one
\* request at a time, a second or more than the window apart.
SymbolParams == {"AAPL", "msft"}

NextSymbols ==
    \/ \E symbol \in SymbolParams : GetQuote(1, symbol)
    \/ QuoteCached(1)
    \/ \E resolved \in BOOLEAN : QuoteFetched(1, resolved)
    \/ \E price \in QuotePrices \cup {Undefined} : QuoteRead(1, price)
    \/ QuoteStored(1)
    \/ \E d \in {1, QuoteWindow, QuoteWindow + 1} : Quiet /\ Pass(d)

SpecSymbols == Init /\ [][NextSymbols]_vars

\* One run of update-prices on portfolio 1 in slot 1 and, while it runs, the
\* market-data route and transactions that close and reopen the portfolio's
\* position in AAPL in slot 2.
ClosingBodies ==
    {TxBody(1, "sell", Dec(50), Dec(180)), TxBody(1, "buy", Dec(25), Dec(180))}

NextClosing ==
    \/ PostUpdatePrices(1, 1)
    \/ PricesListed(1)
    \/ PricesFetched(1)
    \/ PricesQuoted(1)
    \/ PricesWritten(1)
    \/ \E symbol \in QuoteSymbols : GetQuote(2, symbol)
    \/ QuoteCached(2)
    \/ \E resolved \in BOOLEAN : QuoteFetched(2, resolved)
    \/ \E price \in QuotePrices \cup {Undefined} : QuoteRead(2, price)
    \/ QuoteStored(2)
    \/ \E body \in ClosingBodies : Left("ops", MaxOps) /\ PostTransaction(2, body)
    \/ ResumeTransaction(2)

SpecClosing == Init /\ [][NextClosing]_vars

\* Reads of a portfolio's transactions, one request at a time, between
\* transactions that move no holding, dated before and after the sample ones.
DatedBodies ==
    {[TxBody(1, "dividend", Dec(25), Dec(180)) EXCEPT !.date = 0 - 20 * DaySec],
     [TxBody(1, "dividend", Dec(25), Dec(180)) EXCEPT !.date = 0],
     [TxBody(2, "dividend", Dec(25), Dec(180)) EXCEPT !.date = 0]}

LimitQueries == {<<>>, <<0>>, <<1>>, <<2>>, <<7>>}

NextListing ==
    \/ \E body \in DatedBodies : Left("ops", MaxPosts) /\ PostTransaction(1, body)
    \/ ResumeTransaction(1)
    \/ \E id \in Pids, query \in LimitQueries : GetTransactions(1, id, query)
    \/ TransactionsSliced(1)
    \/ TransactionsAnswered(1)

SpecListing == Init /\ [][NextListing]_vars

-----------------------------------------------------------------------------
(* Vocabulary of the properties: exact arithmetic on the values of decimal *)
(* strings, the ledger of a key, and the steps of a transaction request.   *)

IsDec(str) == str.t = "dec"

DecNeg(a) == [a EXCEPT !.n = 0 - a.n]

DecAdd(a, b) ==
    LET p == IF a.p > b.p THEN a.p ELSE b.p
        da == BMul(a.d, Pow10(p - a.p))
        db == BMul(b.d, Pow10(p - b.p))
        c == BCmp(da, db)
    IN  IF a.n = b.n THEN Decimal(a.n, BAdd(da, db), p)
        ELSE IF c = 0 THEN Decimal(1, <<>>, p)
        ELSE IF c > 0 THEN Decimal(a.n, BSub(da, db), p)
        ELSE Decimal(b.n, BSub(db, da), p)

DecSub(a, b) == DecAdd(a, DecNeg(b))

DecMul(a, b) == Decimal(a.n * b.n, BMul(a.d, b.d), a.p + b.p)

DecSign(a) == IF a.d = <<>> THEN 0 ELSE a.n

DecAbs(a) == [a EXCEPT !.n = 1]

\* -1, 0 or 1 as a < b, a = b or a > b in value
DecCmp(a, b) == DecSign(DecSub(a, b))

Positive(str) == IsDec(str) /\ DecSign(str) > 0
NonPositive(str) == IsDec(str) /\ DecSign(str) <= 0

\* the holdings of a portfolio's "AAPL", the symbol every posted body names
HeldOf(hs, pid) ==
    SelectSeq(hs, LAMBDA h : h.portfolioId = pid /\ h.symbol = "AAPL")

\* the ledger's transactions of one type on a portfolio's "AAPL"
LedgerOf(pid, type) ==
    SelectSeq(transactions, LAMBDA t : t.portfolioId = pid /\ t.symbol = "AAPL"
                                       /\ t.type = type)

RECURSIVE SumQuantity(_)
SumQuantity(ts) ==
    IF ts = <<>> THEN Dec(0) ELSE DecAdd(ts[1].quantity, SumQuantity(Tail(ts)))

RECURSIVE SumCost(_)
SumCost(ts) ==
    IF ts = <<>> THEN Dec(0)
    ELSE DecAdd(DecMul(ts[1].quantity, ts[1].price), SumCost(Tail(ts)))

\* Slot r's handler starts on a body the schema accepts: the step runs
\* createTransaction up to its first await.
Starts(r) == Free(r) /\ req'[r].kind = "transaction" /\ req'[r].stack # <<>>

\* Slot r's handler of a transaction answers.
Ends(r) == req[r].kind = "transaction" /\ ~Free(r) /\ req'[r].stack = <<>>

\* createTransaction has returned to slot r's handler, which has yet to answer.
Returned(r) == req[r].kind = "transaction" /\ req[r].stack = <<"R101">>

\* The step appends to the ledger one transaction with the fields of the body.
Recorded(body) ==
    /\ Len(transactions') = Len(transactions) + 1
    /\ SubSeq(transactions', 1, Len(transactions)) = transactions
    /\ \A f \in DOMAIN body \ {"fees"} :
            transactions'[Len(transactions')][f] = body[f]

Created == Response("transaction", 201, Null)

-----------------------------------------------------------------------------
(* The properties.                                                         *)

\* C1: in every reachable state at most one holding exists per
\* (portfolioId, symbol).  POST /holdings creates a second one.
C1_OneHoldingPerKey ==
    \A i, j \in DOMAIN holdings :
        (holdings[i].portfolioId = holdings[j].portfolioId
         /\ holdings[i].symbol = holdings[j].symbol) => i = j

\* C2: when createTransaction has returned, every holding in the store has a
\* quantity > 0, whatever transaction was accepted.  A buy of quantity "0" on
\* a key without a holding leaves a holding of quantity "0".
C2_PositiveAfterTransaction ==
    \A r \in Slots :
        Returned(r) => \A i \in DOMAIN holdings : Positive(holdings[i].quantity)

Tolerance == Decimal(1, Pow10(12), 0)

\* |a - b| <= 10^-12 * b, for b >= 0
Near(a, b) == DecCmp(DecMul(DecAbs(DecSub(a, b)), Tolerance), b) <= 0

C4_NonPositiveBuyRejected ==
    [][\A r \in Slots :
          (/\ Starts(r)
           /\ req'[r].body.type = "buy"
           /\ NonPositive(req'[r].body.quantity) \/ NonPositive(req'[r].body.price))
          => (holdings' = holdings /\ transactions' = transactions)]_vars

\* The holding a sell is applied to, and what the sell leaves of it.
SoldFrom(body) == HeldOf(holdings, body.portfolioId)[1]
Sells(r) ==
    /\ Starts(r)
    /\ req'[r].body.type = "sell"
    /\ HeldOf(holdings, req'[r].body.portfolioId) # <<>>
    /\ IsDec(SoldFrom(req'[r].body).quantity)
    /\ IsDec(req'[r].body.quantity)
LeftBy(body) == DecSub(SoldFrom(body).quantity, body.quantity)

\* C5: a sell that leaves a quantity <= 0 of the holding it is applied to
\* (the first of its key) removes that holding and nothing else from the
\* store, the sell is recorded in the ledger, and the request is answered 201,
\* also when more is sold than is held.
C5_SellToZeroDeletes ==
    [][\A r \in Slots :
          /\ (Sells(r) /\ DecSign(LeftBy(req'[r].body)) <= 0)
             => /\ holdings' = Without(holdings, SoldFrom(req'[r].body).id)
                /\ ~Has(holdings', SoldFrom(req'[r].body).id)
                /\ Recorded(req'[r].body)
          /\ (Ends(r) /\ req[r].body.type = "sell") => sent' = Created]_vars

\* C5's case: 25 of the 50 sample shares were sold, then 50 more than are
\* left: the holding is gone, both sells are in the ledger, and the request is
\* about to be answered.
C5_Witness ==
    /\ ~Has(holdings, 3)
    /\ Len(LedgerOf(1, "sell")) = 2
    /\ LedgerOf(1, "sell")[1].quantity = Dec(25)
    /\ LedgerOf(1, "sell")[2].quantity = Dec(50)
    /\ Returned(1)

\* C6: a sell that leaves a quantity > 0 of the holding it is applied to sets
\* the holding's quantity to exactly what is left and its lastUpdated to the
\* time of the sell, and changes no other field and no other holding.  The
\* subtraction is one of doubles: "0.2" sold from "50" leaves "49.8", and
\* "0.2" sold from that leaves "49.599999999999994".
C6_PartialSellChangesQuantityOnly ==
    [][\A r \in Slots :
          (Sells(r) /\ DecSign(LeftBy(req'[r].body)) > 0)
          => /\ DOMAIN holdings' = DOMAIN holdings
             /\ \A i \in DOMAIN holdings :
                  IF holdings[i].id = SoldFrom(req'[r].body).id
                  THEN /\ IsDec(holdings'[i].quantity)
                       /\ DecCmp(holdings'[i].quantity, LeftBy(req'[r].body)) = 0
                       /\ holdings'[i].lastUpdated = now
                       /\ \A f \in DOMAIN holdings[i] \ {"quantity", "lastUpdated"} :
                            holdings'[i][f] = holdings[i][f]
                  ELSE holdings'[i] = holdings[i]]_vars

\* C7: a buy on a key without a holding adds exactly one holding to the
\* store, with the transaction's quantity as quantity, its price as
\* averageCost, no currentPrice, the symbol as companyName and the
\* transaction's portfolio, symbol, exchange and currency.
C7_BuyCreatesHolding ==
    [][\A r \in Slots :
          (/\ Starts(r)
           /\ req'[r].body.type = "buy"
           /\ HeldOf(holdings, req'[r].body.portfolioId) = <<>>)
          => /\ Len(holdings') = Len(holdings) + 1
             /\ SubSeq(holdings', 1, Len(holdings)) = holdings
             /\ ~Has(holdings, holdings'[Len(holdings')].id)
             /\ LET new == holdings'[Len(holdings')]
                    body == req'[r].body
                IN  /\ new.quantity = body.quantity
                    /\ new.averageCost = body.price
                    /\ new.currentPrice = Null
                    /\ new.companyName = body.symbol
                    /\ new.portfolioId = body.portfolioId
                    /\ new.symbol = body.symbol
                    /\ new.exchange = body.exchange
                    /\ new.currency = body.currency]_vars

\* C7's case: the first buy of "AAPL" in portfolio 2, of 25 at 180, has made
\* the one holding of the key.
C7_Witness ==
    /\ Len(HeldOf(holdings, 2)) = 1
    /\ HeldOf(holdings, 2)[1].companyName = "AAPL"
    /\ HeldOf(holdings, 2)[1].quantity = Dec(25)
    /\ HeldOf(holdings, 2)[1].averageCost = Dec(180)
    /\ Len(LedgerOf(2, "buy")) = 1
    /\ Returned(1)

\* C8: a transaction that is neither a buy nor a sell leaves the holdings
\* store as it is and is added to the ledger.
C8_OtherTypesLedgerOnly ==
    [][\A r \in Slots :
          (Starts(r) /\ req'[r].body.type \notin {"buy", "sell"})
          => (holdings' = holdings /\ Recorded(req'[r].body))]_vars

\* C8's case: a dividend on portfolio 1, which holds "AAPL", is in the ledger
\* and the holdings are those of the sample data.
C8_Witness ==
    /\ Len(LedgerOf(1, "dividend")) = 1
    /\ holdings = SampleHoldings
    /\ Returned(1)

\* C9: a sell on a key without a holding leaves the holdings store as it is,
\* is added to the ledger, and is answered 201.
C9_SellWithoutHolding ==
    [][\A r \in Slots :
          /\ (/\ Starts(r)
              /\ req'[r].body.type = "sell"
              /\ HeldOf(holdings, req'[r].body.portfolioId) = <<>>)
             => (holdings' = holdings /\ Recorded(req'[r].body))
          /\ (/\ Ends(r)
              /\ req[r].body.type = "sell"
              /\ HeldOf(holdings, req[r].body.portfolioId) = <<>>)
             => sent' = Created]_vars

\* C9's case: a sell of "AAPL" in portfolio 2, which holds none, is in the
\* ledger, no holding of the key exists, and the request has been answered.
C9_Witness ==
    /\ Len(LedgerOf(2, "sell")) = 1
    /\ HeldOf(holdings, 2) = <<>>
    /\ sent = Created
    /\ Free(1)

\* C10: createTransaction looks the holding up and writes it in one turn,
\* so with requests in flight together, switching at every await, the buys
\* on a key all take effect and never make a second holding: for each
\* portfolio, at most one holding of "AAPL" is not one that POST /holdings
\* made, and while the ledger has buys and no sell of the key and
\* transactions made its first holding, that holding's quantity is the sum
\* of the bought quantities.
C10_BuysAtomic ==
    \A pid \in Pids :
        LET held == HeldOf(holdings, pid)
            buys == LedgerOf(pid, "buy")
        IN  /\ Cardinality({i \in DOMAIN held : held[i].companyName # "Apple"}) <= 1
            /\ (/\ buys # <<>>
                /\ LedgerOf(pid, "sell") = <<>>
                /\ held # <<>> => held[1].companyName # "Apple")
               => /\ held # <<>>
                  /\ DecCmp(held[1].quantity, SumQuantity(buys)) = 0

\* C10's case: two buys of 25 on the sample holding of 50 are in flight
\* together, neither answered, and the holding has 100.
C10_Witness ==
    /\ \A r \in {1, 2} :
          /\ req[r].kind = "transaction"
          /\ ~Free(r)
          /\ req[r].body.type = "buy"
          /\ req[r].body.portfolioId = 1
    /\ HeldOf(holdings, 1)[1].quantity = Dec(100)

-----------------------------------------------------------------------------
(* Vocabulary of the metrics properties: the exact value of a double and   *)
(* of a holding's value, cost and gain.                                    *)

RECURSIVE Pow5(_)
Pow5(k) ==
    IF k = 0 THEN <<1>>
    ELSE IF k % 2 = 0 THEN BSquare(Pow5(k \div 2))
    ELSE BMulLimb(Pow5(k - 1), 5)

IsFinite(x) == x.k = "fin"

\* the decimal that a finite double is: m * 2^e = m * 5^-e / 10^-e for e < 0
Exact(x) ==
    IF x.e >= 0 THEN Decimal(x.s, BShl(x.m, x.e), 0)
    ELSE Decimal(x.s, BMul(x.m, Pow5(0 - x.e)), 0 - x.e)

\* |a - b| <= 10^-12 * scale
Within(a, b, scale) ==
    DecCmp(DecMul(DecAbs(DecSub(a, b)), Tolerance), scale) <= 0

PriceOf(h) == IF Falsy(h.currentPrice) THEN Dec(0) ELSE h.currentPrice
Decimals(h) == IsDec(h.quantity) /\ IsDec(h.averageCost) /\ IsDec(PriceOf(h))
ValueOf(h) == DecMul(PriceOf(h), h.quantity)
CostOf(h) == DecMul(h.averageCost, h.quantity)
GainOf(h) == DecSub(ValueOf(h), CostOf(h))
ScaleOf(h) == DecAdd(DecAbs(ValueOf(h)), DecAbs(CostOf(h)))

\* percent is 100 * gain / cost for a cost that is not zero, to rounding:
\* |percent * cost - 100 * gain| <= 10^-12 * 100 * scale
IsPercent(percent, gain, cost, scale) ==
    /\ IsFinite(percent)
    /\ Within(DecMul(Exact(percent), cost), DecMul(Dec(100), gain),
              DecMul(Dec(100), scale))

\* C12: every holding returned by GET holdings has currentValue =
\* currentPrice * quantity, totalGain = currentValue - averageCost * quantity
\* and totalGainPercent = totalGain / (averageCost * quantity) * 100 when that
\* cost is not zero, all three to the rounding of doubles, and
\* totalGainPercent = 0 when the cost is zero.  The code's guard is
\* totalCost > 0: a holding of quantity "-50" at cost 180 gets 0 percent.
C12_HoldingMetrics ==
    sent.kind = "holdings" =>
        \A i \in DOMAIN sent.body :
            Decimals(sent.body[i].holding) =>
                /\ IsFinite(sent.body[i].currentValue)
                /\ Within(Exact(sent.body[i].currentValue),
                          ValueOf(sent.body[i].holding),
                          DecAbs(ValueOf(sent.body[i].holding)))
                /\ IsFinite(sent.body[i].totalGain)
                /\ Within(Exact(sent.body[i].totalGain),
                          GainOf(sent.body[i].holding),
                          ScaleOf(sent.body[i].holding))
                /\ IF DecSign(CostOf(sent.body[i].holding)) = 0
                   THEN IsZero(sent.body[i].totalGainPercent)
                   ELSE IsPercent(sent.body[i].totalGainPercent,
                                  GainOf(sent.body[i].holding),
                                  CostOf(sent.body[i].holding),
                                  ScaleOf(sent.body[i].holding))

RECURSIVE DecSum(_)
DecSum(ds) == IF ds = <<>> THEN Dec(0) ELSE DecAdd(ds[1], DecSum(Tail(ds)))

HoldingsOf(pid) == SelectSeq(holdings, LAMBDA h : h.portfolioId = pid)
AllDecimals(hs) == \A i \in DOMAIN hs : Decimals(hs[i])
TotalOf(hs) == DecSum([i \in DOMAIN hs |-> ValueOf(hs[i])])
CostBasis(hs) == DecSum([i \in DOMAIN hs |-> CostOf(hs[i])])
ValueScale(hs) == DecSum([i \in DOMAIN hs |-> DecAbs(ValueOf(hs[i]))])
TotalScale(hs) == DecSum([i \in DOMAIN hs |-> ScaleOf(hs[i])])

\* a step in which slot r's GET /api/portfolios/:id calls
\* getPortfolioWithMetrics, which finds the portfolio
ReadsPortfolio(r) ==
    Free(r) /\ req'[r].kind = "portfolio" /\ req'[r].result # <<>>

\* the totals p are those of the holdings hs, to the rounding of doubles
IsTotals(p, hs) ==
    /\ IsFinite(p.totalValue)
    /\ Within(Exact(p.totalValue), TotalOf(hs), ValueScale(hs))
    /\ IsFinite(p.totalGain)
    /\ Within(Exact(p.totalGain), DecSub(TotalOf(hs), CostBasis(hs)), TotalScale(hs))

IsTotalPercent(p, hs) ==
    IF DecSign(CostBasis(hs)) = 0
    THEN IsZero(p.totalGainPercent)
    ELSE IsPercent(p.totalGainPercent, DecSub(TotalOf(hs), CostBasis(hs)),
                   CostBasis(hs), TotalScale(hs))

\* C13: getPortfolioWithMetrics(id) of a stored portfolio returns
\* holdingsCount = the number of holdings of portfolio id and, when their
\* fields are decimals, totalValue = the sum of currentPrice * quantity and
\* totalGain = totalValue - the sum of averageCost * quantity, to the rounding
\* of doubles, and totalGainPercent = totalGain / cost * 100 for a total cost
\* that is not zero, 0 for one that is; with no holding all four are 0.  The
\* code's guard is totalCost > 0: ASML bought for 5800 and AAPL bought "-50"
\* at 180 make a cost of -3200 and 0 percent.
C13_PortfolioMetrics ==
    [][\A r \in Slots :
          ReadsPortfolio(r) =>
              /\ req'[r].result[1].holdingsCount =
                      Len(HoldingsOf(req'[r].body.portfolioId))
              /\ AllDecimals(HoldingsOf(req'[r].body.portfolioId)) =>
                    /\ IsTotals(req'[r].result[1],
                                HoldingsOf(req'[r].body.portfolioId))
                    /\ IsTotalPercent(req'[r].result[1],
                                      HoldingsOf(req'[r].body.portfolioId))]_vars

DividendsOf(pid) == SelectSeq(transactions, LAMBDA t : t.portfolioId = pid /\ t.type = "dividend")
Amounts(ts) == DecSum([i \in DOMAIN ts |-> ts[i].totalAmount])
ValueDecimals(hs) == \A i \in DOMAIN hs : IsDec(hs[i].quantity) /\ IsDec(PriceOf(hs[i]))

\* yield is 100 * dividends / value for a value that is not zero, to rounding:
\* |yield * value - 100 * dividends| * |value|
\*     <= 10^-12 * 100 * dividends * (|value| + scale)
IsYield(yield, dividends, value, scale) ==
    IF DecSign(value) = 0 THEN IsZero(yield)
    ELSE /\ IsFinite(yield)
         /\ Within(DecMul(DecMul(Exact(yield), value), DecAbs(value)),
                   DecMul(DecMul(Dec(100), dividends), DecAbs(value)),
                   DecMul(DecMul(Dec(100), DecAbs(dividends)),
                          DecAdd(DecAbs(value), scale)))

\* C14: the dividendYield that getPortfolioWithMetrics(id) returns is the sum
\* of totalAmount over the transactions of portfolio id of type dividend,
\* and of no other transaction, divided by the total value and times 100, to
\* the rounding of doubles, and 0 when the total value is 0.  The code's guard
\* is totalValue > 0: after a buy of "-150" AAPL the value of the US portfolio
\* is -9793.75 and a dividend of 100 yields 0.
C14_DividendYield ==
    [][\A r \in Slots :
          (ReadsPortfolio(r) /\ ValueDecimals(HoldingsOf(req'[r].body.portfolioId))) =>
              IsYield(req'[r].result[1].dividendYield,
                      Amounts(DividendsOf(req'[r].body.portfolioId)),
                      TotalOf(HoldingsOf(req'[r].body.portfolioId)),
                      ValueScale(HoldingsOf(req'[r].body.portfolioId)))]_vars

\* a step in which getHoldingsWithMetrics of slot r maps the list it awaited
MapsHoldings(r) ==
    /\ req[r].kind = "holdings" /\ req[r].stack # <<>> /\ Head(req[r].stack) = "S364"
    /\ req'[r].stack = <<"R58">>

Unpriced(h) == h.currentPrice = Null /\ IsDec(h.quantity) /\ IsDec(h.averageCost)

\* C15: a holding without a currentPrice counts with price 0 in both metrics
\* reads.  GET holdings gives it currentValue 0 and totalGain =
\* -(averageCost * quantity); GET portfolio, of a portfolio that has such a
\* holding, returns the totals of C13 with 0 for its value.
C15_AbsentPriceIsZero ==
    [][\A r \in Slots :
          /\ MapsHoldings(r) =>
                \A i \in DOMAIN req'[r].result :
                    Unpriced(req'[r].result[i].holding) =>
                        /\ IsZero(req'[r].result[i].currentValue)
                        /\ IsFinite(req'[r].result[i].totalGain)
                        /\ Within(Exact(req'[r].result[i].totalGain),
                                  DecNeg(CostOf(req'[r].result[i].holding)),
                                  DecAbs(CostOf(req'[r].result[i].holding)))
          /\ (/\ ReadsPortfolio(r)
              /\ AllDecimals(HoldingsOf(req'[r].body.portfolioId))
              /\ \E i \in DOMAIN holdings :
                    /\ holdings[i].portfolioId = req'[r].body.portfolioId
                    /\ Unpriced(holdings[i]))
                => IsTotals(req'[r].result[1],
                            HoldingsOf(req'[r].body.portfolioId))]_vars

\* GET holdings has answered with a holding that a first buy created, which
\* has no price, a value of 0 and a loss of its whole cost
C15_Witness ==
    /\ sent.kind = "holdings"
    /\ \E i \in DOMAIN sent.body :
          /\ Unpriced(sent.body[i].holding)
          /\ sent.body[i].holding.companyName = sent.body[i].holding.symbol
          /\ IsZero(sent.body[i].currentValue)
          /\ Sign(sent.body[i].totalGain) < 0

\* a step of slot r's GET holdings or GET portfolio: its start, the
\* resumption of getHoldingsWithMetrics, or its answer
ReadStep(r) ==
    /\ req'[r] # req[r]
    /\ req[r].kind \in {"holdings", "portfolio"} \/ req'[r].kind \in {"holdings", "portfolio"}

\* C16: no step of getPortfolioWithMetrics, of getHoldingsWithMetrics or of
\* the two GET handlers that call them changes the portfolios, holdings,
\* transactions, currency-rate or market-data store, whatever the store holds
\* and whether or not the portfolio id is one of a stored portfolio.
C16_MetricsReadOnly ==
    [][\A r \in Slots :
          ReadStep(r) =>
              UNCHANGED <<portfolios, holdings, transactions, currencies, marketData>>]_vars

\* GET portfolio of an id without a portfolio has answered 404 after the
\* store was written to
C16_Witness ==
    /\ sent.kind = "portfolio"
    /\ sent.status = 404
    /\ transactions # SampleTransactions
    /\ holdings # SampleHoldings

\* C17: every step leaves each stored transaction in the ledger with the
\* fields it has and adds at most one; the step in which createTransaction
\* runs adds exactly one, the transaction it was given.
C17_AppendOnly ==
    [][/\ Len(transactions') \in {Len(transactions), Len(transactions) + 1}
       /\ SubSeq(transactions', 1, Len(transactions)) = transactions
       /\ \A r \in Slots :
             Starts(r) => Recorded(req'[r].body)]_vars

\* two transactions have been added to the two of the sample data, which
\* are still there
C17_Witness ==
    /\ Len(transactions) = Len(SampleTransactions) + 2
    /\ SubSeq(transactions, 1, Len(SampleTransactions)) = SampleTransactions
    /\ sent = Created

\* a step in which slot r's GET holdings calls getHoldingsWithMetrics, which
\* runs up to its await with the list of getHoldings
ListsHoldings(r) == Free(r) /\ req'[r].kind = "holdings"

\* the row is the holding v with the metrics of v's own fields
FromVersion(row, v) ==
    /\ row.holding = v
    /\ Decimals(v) =>
          /\ IsFinite(row.currentValue)
          /\ Within(Exact(row.currentValue), ValueOf(v), DecAbs(ValueOf(v)))
          /\ IsFinite(row.totalGain)
          /\ Within(Exact(row.totalGain), GainOf(v), ScaleOf(v))
          /\ DecSign(CostOf(v)) > 0 =>
                IsPercent(row.totalGainPercent, GainOf(v), CostOf(v), ScaleOf(v))

\* C11: with transactions, market-data refreshes and update-prices in flight,
\* every row that getHoldingsWithMetrics returns is a holding as it was
\* stored when the read was called, with currentValue, totalGain and
\* totalGainPercent computed from the quantity, averageCost and currentPrice
\* of that one version; and getPortfolioWithMetrics returns the totals of
\* the holdings as they are stored in the step in which it is called.
C11_ConsistentSnapshot ==
    [][\A r \in Slots :
          /\ ListsHoldings(r) =>
                \A i \in DOMAIN req'[r].snap :
                    \E j \in DOMAIN holdings : holdings[j] = req'[r].snap[i]
          /\ MapsHoldings(r) =>
                /\ Len(req'[r].result) = Len(req[r].snap)
                /\ \A i \in DOMAIN req[r].snap :
                      FromVersion(req'[r].result[i], req[r].snap[i])
          /\ (ReadsPortfolio(r) /\ AllDecimals(HoldingsOf(req'[r].body.portfolioId))) =>
                IsTotals(req'[r].result[1], HoldingsOf(req'[r].body.portfolioId))]_vars

\* GET holdings has answered with the AAPL holding as it was when the read
\* was called, which a buy or a price update has replaced in the store since
C11_Witness ==
    /\ sent.kind = "holdings"
    /\ \E i \in DOMAIN sent.body :
          /\ sent.body[i].holding.symbol = "AAPL"
          /\ \E j \in DOMAIN holdings :
                /\ holdings[j].id = sent.body[i].holding.id
                /\ holdings[j] # sent.body[i].holding

\* The transactions ts applied in order to the holdings hs a second time,
\* with ids from id on and every write at time t.
RECURSIVE Replay(_, _, _, _)
Replay(ts, hs, id, t) ==
    IF ts = <<>> THEN hs
    ELSE Replay(Tail(ts),
                ApplyCall(hs, updateHoldingFromTransaction(hs,
                                  [ts[1] EXCEPT !.id = id, !.createdAt = t], id + 1), t),
                id + 2, t)

\* a holding without its id and timestamp
Plain(h) ==
    [portfolioId |-> h.portfolioId, symbol |-> h.symbol, quantity |-> h.quantity,
     averageCost |-> h.averageCost, currentPrice |-> h.currentPrice,
     companyName |-> h.companyName, exchange |-> h.exchange, currency |-> h.currency]

PlainSet(hs) == {Plain(hs[i]) : i \in DOMAIN hs}

Posted == SubSeq(transactions, Len(SampleTransactions) + 1, Len(transactions))

FiveMinutes == 5 * 60
OneHour == 60 * 60

\* a step in which the handler of slot r, back from the cache, decides
\* between the cached entry and the provider
DecidesQuote(r) == req[r].kind = "quote" /\ req[r].stack = <<"R118">> /\ req'[r] # req[r]
DecidesRate(r) == req[r].kind = "rate" /\ req[r].stack = <<"R165">> /\ req'[r] # req[r]

\* the entries cached for the symbol and for the pair of slot r's request
QuotesFor(r) == SelectSeq(marketData, LAMBDA e : e.symbol = req[r].body.symbol)
RatesFor(r) ==
    SelectSeq(currencies, LAMBDA e : /\ e.fromCurrency = toUpperCase(req[r].body.from)
                                     /\ e.toCurrency = toUpperCase(req[r].body.to))

\* Slot r goes on to call the provider, at the await of that line, exactly
\* when no entry is cached or the entry is older than the window; else it
\* answers 200 with the cached value `value` and is over.
Refreshes(r, cached, window, at, kind, value) ==
    IF cached = <<>> \/ now - cached[1].lastUpdated > window
    THEN req'[r].stack = <<at>> /\ sent' = sent
    ELSE req'[r].stack = <<>> /\ sent' = Response(kind, 200, value)

\* C19: GET /api/market-data/:symbol goes to the provider exactly when the
\* cache has no entry for the symbol or one older than 5 minutes, and
\* GET /api/currency/:from/:to exactly when it has no rate for the pair or
\* one older than 1 hour; otherwise the answer is the cached value; the step
\* that decides leaves both caches as they are.
C19_FreshnessWindows ==
    [][\A r \in Slots :
          /\ DecidesQuote(r) =>
                /\ Refreshes(r, QuotesFor(r), FiveMinutes, "R123", "quote",
                             (QuotesFor(r) \o <<[price |-> Null]>>)[1].price)
                /\ UNCHANGED <<marketData, currencies>>
          /\ DecidesRate(r) =>
                /\ Refreshes(r, RatesFor(r), OneHour, "R170", "rate",
                             (RatesFor(r) \o <<[rate |-> Null]>>)[1].rate)
                /\ UNCHANGED <<marketData, currencies>>]_vars

\* a quote has been answered from an entry exactly 5 minutes old, which is
\* still the cached one
C19_Witness ==
    /\ sent = Response("quote", 200, Places(18000, 2))
    /\ used["quotes"] = 2
    /\ \A r \in Slots : Free(r)
    /\ marketData # <<>>
    /\ now - marketData[1].lastUpdated = FiveMinutes

Refusal == Response("auth", 401, Null)

-----------------------------------------------------------------------------
(* C21: update-prices and the transactions of the same portfolio.          *)

\* what the transactions decide of a holding: its key, quantity and cost
Position(h) ==
    [portfolioId |-> h.portfolioId, symbol |-> h.symbol,
     quantity |-> h.quantity, averageCost |-> h.averageCost]

Positions(hs) == {Position(hs[i]) : i \in DOMAIN hs}

\* C21: once every request is answered, the quantity and the average cost
\* of every holding are those that the posted transactions alone, applied
\* in ledger order to the initial store, give it, whatever update-prices
\* ran in between.
C21_PriceUpdateKeepsPosition ==
    Quiet => Positions(holdings)
                = Positions(Replay(Posted, SampleHoldings, FirstFreeId * 10 + 1, DaySec))

-----------------------------------------------------------------------------
(* C22: the provider fails.                                                *)

\* A step in which slot r's handler answers from the await of fetch or of
\* response.json(): the fetch was rejected, or its body was not a quote or
\* a rate.  A body that is one takes the handler to the await of the store.
FailsQuote(r) ==
    req[r].kind = "quote" /\ req[r].stack \in {<<"R123">>, <<"R126">>} /\ Free(r)'
FailsRate(r) ==
    req[r].kind = "rate" /\ req[r].stack \in {<<"R170">>, <<"R173">>} /\ Free(r)'

\* the answer is the cached value, or 404 when nothing is cached
FallsBack(cached, kind, value) ==
    sent' = IF cached = <<>> THEN Response(kind, 404, Null)
            ELSE Response(kind, 200, value)

-----------------------------------------------------------------------------
(* C23: one user for every Google id.                                      *)

UsersOf(googleId) == SelectSeq(users, LAMBDA u : u.googleId = googleId)

\* C23: once every sign-in callback is over, the users store holds at most
\* one user for every Google id, and for a Google id that has one that user
\* is what getUserByGoogleId returns.
C23_OneUserPerGoogleId ==
    Quiet => \A googleId \in GoogleIds :
                /\ Len(UsersOf(googleId)) <= 1
                /\ UsersOf(googleId) # <<>> =>
                        getUserByGoogleId(users, googleIdToUserId, googleId)
                            = UsersOf(googleId)

-----------------------------------------------------------------------------
(* C24: referential integrity.                                             *)

\* C24: in every state every stored holding and every stored transaction
\* has the portfolioId of a portfolio that is in the store.
C24_ReferentialIntegrity ==
    /\ \A i \in DOMAIN holdings : holdings[i].portfolioId \in portfolios
    /\ \A i \in DOMAIN transactions : transactions[i].portfolioId \in portfolios

-----------------------------------------------------------------------------
(* C25: what a transaction leaves alone.                                   *)

\* a step of slot r's transaction request, from its start to its answer
StepsTransaction(r) ==
    /\ req'[r] # req[r]
    /\ req[r].kind = "transaction" \/ req'[r].kind = "transaction"

\* the holdings of every other key than the transaction's, in map order
OtherThan(hs, transaction) ==
    SelectSeq(hs, LAMBDA h : \/ h.portfolioId # transaction.portfolioId
                             \/ h.symbol # transaction.symbol)

-----------------------------------------------------------------------------
(* C26: the second request for a symbol.                                   *)

\* What the provider's quotes for the symbol of slot r's request have left
\* in the cache: a quote fetched for a symbol is stored under the symbol in
\* upper case, and of the symbols asked for no two have the same upper case.
FetchedFor(r) ==
    SelectSeq(marketData, LAMBDA e : e.symbol = toUpperCase(req[r].body.symbol))

\* C26: when the handler of GET /api/market-data/:symbol decides and a quote
\* was fetched for the same symbol parameter at most 5 minutes ago, it
\* answers 200 with that quote and makes no call of the provider, whatever
\* the case of the letters of the parameter.
C26_SecondRequestCached ==
    [][\A r \in Slots :
          (/\ DecidesQuote(r)
           /\ FetchedFor(r) # <<>>
           /\ now - FetchedFor(r)[1].lastUpdated <= FiveMinutes)
          => /\ Free(r)'
             /\ sent' = Response("quote", 200, FetchedFor(r)[1].price)]_vars

-----------------------------------------------------------------------------
(* C27: the two metrics views of one state.                                *)

\* the rows getHoldingsWithMetrics returns for a portfolio, and what
\* getPortfolioWithMetrics returns for it, in the state as it is
RowsOf(id) == HoldingsWithMetrics(getHoldings(holdings, id), marketData)
ViewOf(id) == getPortfolioWithMetrics(portfolios, holdings, transactions, id)[1]

\* the numbers that the rows have in one field, added up one after the other
\* from 0 as a client adds them, in JavaScript numbers
RECURSIVE SumOfValues(_, _)
SumOfValues(rows, sum) ==
    IF rows = <<>> THEN sum
    ELSE SumOfValues(Tail(rows), Add(sum, rows[1].currentValue))

RECURSIVE SumOfGains(_, _)
SumOfGains(rows, sum) ==
    IF rows = <<>> THEN sum
    ELSE SumOfGains(Tail(rows), Add(sum, rows[1].totalGain))

\* a === b of two numbers that are not NaN
SameNumber(a, b) == a = b \/ (IsZero(a) /\ IsZero(b))

\* C27: in every state and for every portfolio, the holdingsCount that
\* getPortfolioWithMetrics returns is the number of rows that
\* getHoldingsWithMetrics returns and, when the fields of the holdings are
\* decimals, its totalValue is the sum of the currentValue of the rows and
\* its totalGain is the sum of their totalGain.
C27_ViewsAgree ==
    \A id \in portfolios :
        /\ ViewOf(id).holdingsCount = Len(RowsOf(id))
        /\ AllDecimals(HoldingsOf(id)) =>
              /\ SameNumber(ViewOf(id).totalValue, SumOfValues(RowsOf(id), Zero))
              /\ SameNumber(ViewOf(id).totalGain, SumOfGains(RowsOf(id), Zero))

-----------------------------------------------------------------------------
(* C28: update-prices and a position closed while it runs.                 *)

Ids(hs) == {hs[i].id : i \in DOMAIN hs}

\* the holdings of its list that the run of slot r has yet to write for the
\* symbol it is at
ToWrite(r) ==
    IF req[r].stack = <<"R217">> THEN req[r].todo
    ELSE SelectSeq(req[r].snap, LAMBDA h : h.symbol = Head(req[r].syms))

\* a step in which the run of slot r calls updateHolding for the first
\* holding it has yet to write
WritesPrice(r) ==
    /\ req[r].kind = "prices"
    /\ req[r].stack \in {<<"R212">>, <<"R217">>}
    /\ req'[r] # req[r]
    /\ req'[r].stack = <<"R217">>

\* C28: no step of update-prices adds a holding to the store or removes
\* one, and a write for a holding of the run's list that is no longer in the
\* store changes nothing: a position closed while the run was waiting stays
\* closed.
C28_ClosedStaysClosed ==
    [][\A r \in Slots :
          /\ (req[r].kind = "prices" /\ req'[r] # req[r]) =>
                Ids(holdings') = Ids(holdings) /\ Len(holdings') = Len(holdings)
          /\ (WritesPrice(r) /\ Head(ToWrite(r)).id \notin Ids(holdings)) =>
                holdings' = holdings]_vars

\* the run has made its write for AAPL, which it had listed under id 3, and
\* the store has no holding of that id: a sell closed the position between
\* the listing and the write
C28_Witness ==
    /\ req[1].kind = "prices" /\ req[1].stack = <<"R217">>
    /\ Head(req[1].syms) = "AAPL"
    /\ \E i \in DOMAIN req[1].snap : req[1].snap[i].id = 3
    /\ 3 \notin Ids(holdings)
    /\ Len(LedgerOf(1, "sell")) = 1

-----------------------------------------------------------------------------
(* C29: what a buy changes of the holding it finds.                        *)

\* the fields of a holding that a buy leaves as they are
Kept(h) ==
    [id |-> h.id, portfolioId |-> h.portfolioId, symbol |-> h.symbol,
     companyName |-> h.companyName, exchange |-> h.exchange,
     currency |-> h.currency, currentPrice |-> h.currentPrice]

\* a step in which slot r's handler starts on a buy whose key has a holding
BuysMore(r) ==
    /\ Starts(r)
    /\ req'[r].body.type = "buy"
    /\ MatchingHoldings(holdings, req'[r].body) # <<>>

\* C29: a buy on a key that has a holding leaves the store with the same
\* holdings in the same order; the holding found keeps its id, portfolioId,
\* symbol, companyName, exchange, currency and currentPrice, and every
\* other holding is unchanged.
C29_BuyKeepsIdentity ==
    [][\A r \in Slots :
          BuysMore(r) =>
            /\ Len(holdings') = Len(holdings)
            /\ \A i \in DOMAIN holdings :
                  /\ Kept(holdings'[i]) = Kept(holdings[i])
                  /\ holdings[i].id # MatchingHoldings(holdings, req'[r].body)[1].id
                        => holdings'[i] = holdings[i]]_vars

\* the buy of 25 at 180, in GBP on the LSE, has been averaged into the
\* holding of id 3, which is still Apple Inc. in USD on NASDAQ at 175.50
C29_Witness ==
    /\ Returned(1)
    /\ Len(holdings) = Len(SampleHoldings)
    /\ \E i \in DOMAIN holdings :
            /\ Kept(holdings[i]) = Kept(SampleHoldings[1])
            /\ holdings[i].quantity = Dec(75)
            /\ holdings[i].averageCost = Dec(160)

\* ---- C30: the list of a portfolio's transactions ----

\* the step on which slot r answers GET /api/portfolios/:id/transactions
AnswersList(r) ==
    /\ req[r].kind = "ledger" /\ req[r].stack = <<"R86">>
    /\ req'[r].stack = <<>>

\* the transactions stored under a portfolio
StoredFor(portfolioId) ==
    {transactions[i] : i \in {k \in DOMAIN transactions :
                                transactions[k].portfolioId = portfolioId}}

\* list holds transactions of the portfolio only, each once, later dates
\* first, and with a limit n the n latest of them (all when there are fewer)
ListsNewest(list, portfolioId, limit) ==
    LET own == StoredFor(portfolioId)
        shown == {list[i] : i \in DOMAIN list}
    IN  /\ shown \subseteq own
        /\ Cardinality(shown) = Len(list)
        /\ \A i, j \in DOMAIN list : i < j => list[i].date >= list[j].date
        /\ \A t \in own \ shown, s \in shown : t.date <= s.date
        /\ Len(list) = IF limit = <<>> \/ limit[1] > Cardinality(own)
                       THEN Cardinality(own) ELSE limit[1]

\* C30: the answer of GET /api/portfolios/:portfolioId/transactions holds
\* only that portfolio's transactions, ordered by trade date with the newest
\* first; with ?limit=n, for every integer n >= 0, it holds the n most recent
\* of them; and getRecentTransactions called without a limit gives at most 5
C30_TransactionsListed ==
    [][/\ \A r \in Slots : AnswersList(r) =>
              ListsNewest(sent'.body, req[r].body.portfolioId, req[r].body.limit)
       /\ \A id \in Pids :
              Len(getRecentTransactions(getTransactions(transactions, id), <<>>))
                  <= DefaultLimit]_vars

=============================================================================
